---- MODULE Spec2Model ----
(***************************************************************************)
(* State-machine model of the chat backend: the Room and Message documents *)
(* (models/Room.js, models/Message.js), the REST controllers, the socket   *)
(* handlers and the in-memory connection registry.                         *)
(*                                                                         *)
(* Store model.  A handler loads a document (findById / findOne), checks   *)
(* and mutates its private copy, and calls save().  save() sends only the  *)
(* changes tracked on the copy: a push to an array is sent as an atomic    *)
(* $push (version incremented, not compared), an assignment of a whole     *)
(* array is sent as $set guarded by the version read (and increments it),  *)
(* an assignment inside an array element is sent as a positional $set      *)
(* guarded by the version read, a scalar is sent as a plain $set.  A       *)
(* failed version guard or a unique-index conflict makes save() throw.     *)
(* The version number itself is not kept: a request in flight carries the *)
(* flag "outdated", set when a later save increments the stored version,   *)
(* which is exactly when the version it read differs from the store's.     *)
(*                                                                         *)
(* Under SpecRace a REST room handler is two steps: its read, after which  *)
(* every check it makes is decided by the copy it read (a refusal is       *)
(* answered at once), and the save() it then has pending, applied to       *)
(* whatever the store holds by then.  Under SpecRoom, SpecFan, SpecMsg and *)
(* SpecPresence each handler runs to its end with no request in between.   *)
(***************************************************************************)
EXTENDS Integers, Sequences, FiniteSets, TLC

\* ------------------------------------------------------------------ bounds
MaxRooms == 1
MaxInFlight == 2
MaxCap == 3
MaxMsgs == 1
MaxEdits == 1
MaxNow == 16
TickMinutes == 15

\* ------------------------------------------------------------- input sets
Users == {"a", "b", "c"}
NoUser == "nobody"
NoRoom == 0
RoomTypes == {"group", "public"}
Creators == {"a"}
DirectUsers == {"a", "b"}
CreateTypes == {"group"}
Roles == {"admin", "member"}
MinMaxMembers == 2
CapChoices == MinMaxMembers..MaxCap
Slots == 1..MaxInFlight
RoomIds == 1..MaxRooms
Sockets == {"s1", "s2", "s3"}
FanSockets == {"s1", "s3"}
NoSocket == "none"
Statuses == {"online", "away", "busy"}
Emojis == {"+"}
MsgIds == 1..MaxMsgs
Instants == {0, TickMinutes, MaxNow}
EditWindow == 15
DeletedText == "This message has been deleted"
MaxSends == 2
MaxHistory == 2
MaxRaceEdits == 2
MaxFileSends == 3
NewIds == {"d", "e"}
AccountIds == Users \cup NewIds
MaxContent == 2000
LongText == "long"
Contents == {"", " ", " x ", "x", LongText}
SendFails == {"none", "read", "message", "populate", "room"}
RemoveFails == {"none", "read", "save", "user"}

VARIABLES
  rooms,      \* the Room collection: sequence of documents, _id = index
  reqs,       \* room requests whose save() is pending
  lastResp,   \* the response of the room handler that ran to its end last
  directResp, \* the last answer to a direct-room request: the pair, the room returned
  live,       \* the sockets connected (authenticated, not yet disconnected)
  activeConnections, \* the Map userId -> connection of socketHandlers
  status,     \* User.status as persisted
  joined,     \* socket.io room subscriptions: pairs <<socket, room id>>
  lastStatus, \* the last user:status event emitted
  lastEmit,   \* the last message:new event emitted
  msgs,       \* the Message collection: sequence of documents, _id = index
  now,        \* the clock, in minutes
  lastMsg,    \* the outcome of the last edit, delete, react or unreact request
  reacts,     \* react requests whose save() is pending, by requester
  conc,       \* the react requests that were pending together: <<user, message, emoji>>
  reads,      \* updateLastRead calls whose save() is pending
  lastReadAt, \* members[i].lastReadAt as updateLastRead stored it last, by room and user
              \* (0 while it stored none: the default of a new member is not kept)
  highRead,   \* the latest instant updateLastRead stored so far, by room and user
  lastReq,    \* the answer to the last socket request that was followed to its end
  sends,      \* message:send handlers that have not run to their end, in arrival order
  sentLog,    \* the message:new events emitted, in order: the arrival number of each
  accounts,   \* the User collection, by _id: exists is FALSE while no document has it
  signups,    \* register and profile requests whose save() is pending
  fileServer, \* the file-backed server: connectedUsers, data/messages.json, the
              \* send_message handlers under way, the new_message events emitted
  edits,      \* message:edit handlers whose save() is pending, in arrival order
  edited      \* by message, the contents its edits stored, in the order of the saves

roomVars == <<rooms, reqs, lastResp, directResp>>
sockVars == <<live, activeConnections, status, joined, lastStatus, lastEmit>>
msgVars == <<msgs, now, lastMsg, reacts, conc, reads>>
readVars == <<lastReadAt, highRead>>
sendVars == <<lastReq, sends, sentLog>>
userVars == <<accounts, signups>>
editVars == <<edits, edited>>
vars == <<rooms, reqs, lastResp, directResp, live, activeConnections, status,
          joined, lastStatus, lastEmit, msgs, now, lastMsg, reacts, conc, reads,
          lastReadAt, highRead, lastReq, sends, sentLog, accounts, signups, fileServer, edits, edited>>

\* ------------------------------------------------------------ Room model
NoDoc ==
  [id |-> NoRoom, type |-> "none", creator |-> NoUser, members |-> <<>>,
   maxMembers |-> 0, isPrivate |-> FALSE, allowInvites |-> FALSE,
   isActive |-> FALSE, lastMessage |-> 0]

NewRoom(id, type, creator, members, isPrivate, allowInvites, maxMembers) ==
  [id |-> id, type |-> type, creator |-> creator, members |-> members,
   maxMembers |-> maxMembers, isPrivate |-> isPrivate,
   allowInvites |-> allowInvites, isActive |-> TRUE, lastMessage |-> 0]

Member(u, role) == [user |-> u, role |-> role]

findById(store, rid) == IF rid \in DOMAIN store THEN store[rid] ELSE NoDoc

Exists(d) == d.type # "none"

MemberUsers(d) == {d.members[i].user : i \in DOMAIN d.members}

\* Array.prototype.find: the first element that matches, 0 when none does
FindMember(d, u) ==
  IF \E i \in DOMAIN d.members : d.members[i].user = u
  THEN CHOOSE i \in DOMAIN d.members :
         /\ d.members[i].user = u
         /\ \A j \in DOMAIN d.members : d.members[j].user = u => i <= j
  ELSE 0

isMember(d, u) == \E i \in DOMAIN d.members : d.members[i].user = u

isAdmin(d, u) ==
  LET i == FindMember(d, u)
  IN  i # 0 /\ (d.members[i].role = "admin" \/ d.creator = u)

FilterOut(ms, u) == SelectSeq(ms, LAMBDA m : m.user # u)

\* ------------------------------------------------------- save() on a Room
\* the change a loaded copy has tracked, as save() will send it
NoDelta ==
  [kind |-> "none", rid |-> NoRoom, m |-> Member(NoUser, ""), ms |-> <<>>,
   idx |-> 0, setPriv |-> FALSE, priv |-> FALSE, cap |-> 0, doc |-> NoDoc]
\* new document (its _id is its place in the collection, set on insert)
Insert(d) == [NoDelta EXCEPT !.kind = "insert", !.rid = d.id, !.doc = d]
\* members.push(m)
Push(d, m) == [NoDelta EXCEPT !.kind = "push", !.rid = d.id, !.m = m]
\* members = ms
SetMembers(d, ms) ==
  IF ms = d.members THEN NoDelta
  ELSE [NoDelta EXCEPT !.kind = "setMembers", !.rid = d.id, !.ms = ms]
\* members[i].role = r
SetRole(d, i, r) ==
  IF d.members[i].role = r THEN NoDelta
  ELSE [NoDelta EXCEPT !.kind = "setRole", !.rid = d.id, !.idx = i, !.m = Member(NoUser, r)]
\* settings.isPrivate = p; settings.maxMembers = c (cap 0: path not modified)
SetSettings(d, p, c) ==
  IF p = d.isPrivate /\ c = d.maxMembers THEN NoDelta
  ELSE [NoDelta EXCEPT !.kind = "settings", !.rid = d.id,
                       !.setPriv = (p # d.isPrivate), !.priv = p,
                       !.cap = IF c # d.maxMembers THEN c ELSE 0]

\* isActive = false
SetActive(d) ==
  IF ~d.isActive THEN NoDelta
  ELSE [NoDelta EXCEPT !.kind = "deactivate", !.rid = d.id]

\* unique index {type, members.user} restricted to type = direct: no two
\* direct rooms may hold the same user
IndexConflict(store, rid, type, users) ==
  /\ type = "direct"
  /\ \E j \in DOMAIN store :
       j # rid /\ store[j].type = "direct" /\ MemberUsers(store[j]) \cap users # {}

\* inc: the save incremented the document's version
Saved(store, inc) == [ok |-> TRUE, rooms |-> store, inc |-> inc]
Thrown(store) == [ok |-> FALSE, rooms |-> store, inc |-> FALSE]

\* save() of a copy that tracked delta x; outdated: the version read is no
\* longer the stored one
Save(store, x, outdated) ==
  CASE x.kind = "none" -> Saved(store, FALSE)
    [] x.kind = "insert" ->
         IF IndexConflict(store, x.rid, x.doc.type, MemberUsers(x.doc))
         THEN Thrown(store)
         ELSE Saved(Append(store, [x.doc EXCEPT !.id = Len(store) + 1]), FALSE)
    [] x.kind = "push" ->
         \* $push: version incremented, not compared
         IF IndexConflict(store, x.rid, store[x.rid].type, {x.m.user})
         THEN Thrown(store)
         ELSE Saved([store EXCEPT ![x.rid].members = Append(@, x.m)], TRUE)
    [] x.kind = "setMembers" ->
         \* $set of the whole array: version compared and incremented
         IF outdated THEN Thrown(store)
         ELSE Saved([store EXCEPT ![x.rid].members = x.ms], TRUE)
    [] x.kind = "setRole" ->
         \* positional $set: version compared
         IF outdated THEN Thrown(store)
         ELSE Saved([store EXCEPT ![x.rid].members[x.idx].role = x.m.role], FALSE)
    [] x.kind = "settings" ->
         Saved([store EXCEPT ![x.rid].isPrivate = IF x.setPriv THEN x.priv ELSE @,
                             ![x.rid].maxMembers = IF x.cap # 0 THEN x.cap ELSE @],
               FALSE)
    [] x.kind = "deactivate" ->
         Saved([store EXCEPT ![x.rid].isActive = FALSE], FALSE)

\* --------------------------------------------------- Room instance methods
\* each yields what the handler does next: answer `status` at once (a throw
\* before save()), or save() the delta
Refuse(why) == [status |-> why, delta |-> NoDelta]
Proceed(delta) == [status |-> "ok", delta |-> delta]

addMember(d, u, role) ==
  IF FindMember(d, u) # 0 THEN Refuse("already a member")
  ELSE IF Len(d.members) >= d.maxMembers THEN Refuse("maximum member limit")
  ELSE Proceed(Push(d, Member(u, role)))

removeMember(d, u) == Proceed(SetMembers(d, FilterOut(d.members, u)))

updateMemberRole(d, u, r) ==
  LET i == FindMember(d, u)
  IN  IF i = 0 THEN Refuse("not a member") ELSE Proceed(SetRole(d, i, r))

\* Room.createDirectRoom: the lookup, then the insert when nothing was found
FindDirect(store, u1, u2) ==
  IF \E j \in DOMAIN store : store[j].type = "direct" /\ {u1, u2} \subseteq MemberUsers(store[j])
  THEN store[CHOOSE j \in DOMAIN store :
               /\ store[j].type = "direct" /\ {u1, u2} \subseteq MemberUsers(store[j])
               /\ \A k \in DOMAIN store :
                    (store[k].type = "direct" /\ {u1, u2} \subseteq MemberUsers(store[k])) => j <= k]
  ELSE NoDoc

DirectDoc(id, u1, u2) ==
  NewRoom(id, "direct", u1, <<Member(u1, "admin"), Member(u2, "admin")>>, TRUE, FALSE, 2)

\* ------------------------------------------------------ handler decisions
\* what a handler decides from the document d its read returned
Caught(dec, known) ==
  IF dec.delta.kind = "none" /\ dec.status # "ok"
  THEN Refuse(IF dec.status \in known THEN "bad_request" ELSE "error")
  ELSE dec

\* POST /api/rooms/:roomId/join
joinRoom(d, u) ==
  IF ~Exists(d) \/ ~d.isActive THEN Refuse("not_found")
  ELSE IF d.isPrivate THEN Refuse("forbidden")
  ELSE IF isMember(d, u) THEN Refuse("bad_request")
  ELSE Caught(addMember(d, u, "member"), {"maximum member limit"})

\* POST /api/rooms/:roomId/leave
leaveRoom(d, u) ==
  IF ~Exists(d) THEN Refuse("not_found")
  ELSE IF ~isMember(d, u) THEN Refuse("bad_request")
  ELSE IF d.creator = u THEN Refuse("bad_request")
  ELSE removeMember(d, u)

\* POST /api/rooms/:roomId/members
addMemberRest(d, actor, target, role) ==
  IF ~Exists(d) THEN Refuse("not_found")
  ELSE IF ~isMember(d, actor) \/ (~d.allowInvites /\ ~isAdmin(d, actor))
       THEN Refuse("forbidden")
  ELSE Caught(addMember(d, target, role), {"already a member", "maximum member limit"})

\* socket room:invite
roomInvite(d, actor, target) ==
  IF ~Exists(d) THEN Refuse("not_found")
  ELSE IF ~isMember(d, actor) \/ (~d.allowInvites /\ ~isAdmin(d, actor))
       THEN Refuse("forbidden")
  ELSE IF isMember(d, target) THEN Refuse("bad_request")
  ELSE Caught(addMember(d, target, "member"), {})

\* removeMember without the guard on the creator
removeMemberAnyone(d, actor, target) ==
  IF ~Exists(d) THEN Refuse("not_found")
  ELSE IF ~isAdmin(d, actor) THEN Refuse("forbidden")
  ELSE removeMember(d, target)

\* DELETE /api/rooms/:roomId/members
removeMemberRest(d, actor, target) ==
  IF ~Exists(d) THEN Refuse("not_found")
  ELSE IF ~isAdmin(d, actor) THEN Refuse("forbidden")
  ELSE IF d.creator = target THEN Refuse("bad_request")
  ELSE removeMember(d, target)

\* socket room:remove_member
roomRemoveMember(d, actor, target) ==
  IF ~Exists(d) THEN Refuse("not_found")
  ELSE IF ~isAdmin(d, actor) THEN Refuse("forbidden")
  ELSE IF d.creator = target THEN Refuse("bad_request")
  ELSE IF ~isMember(d, target) THEN Refuse("bad_request")
  ELSE removeMember(d, target)

\* PUT /api/rooms/:roomId/members/role and socket room:update_role
updateRole(d, actor, target, role) ==
  IF ~Exists(d) THEN Refuse("not_found")
  ELSE IF ~isAdmin(d, actor) THEN Refuse("forbidden")
  ELSE IF d.creator = target THEN Refuse("bad_request")
  ELSE Caught(updateMemberRole(d, target, role), {})

\* PUT /api/rooms/:roomId
updateRoom(d, actor, isPrivate, maxMembers) ==
  IF ~Exists(d) THEN Refuse("not_found")
  ELSE IF ~isAdmin(d, actor) THEN Refuse("forbidden")
  ELSE Proceed(SetSettings(d, isPrivate, maxMembers))

\* POST /api/rooms/direct and socket room:create_direct, after the lookup
createDirectRoom(found, u1, u2) ==
  IF Exists(found) THEN Proceed(NoDelta)
  ELSE Proceed(Insert(DirectDoc(NoRoom, u1, u2)))

\* DELETE /api/rooms/:roomId
deleteRoom(d, u) ==
  IF ~Exists(d) THEN Refuse("not_found")
  ELSE IF d.creator # u THEN Refuse("forbidden")
  ELSE Proceed(SetActive(d))

\* ------------------------------------------- room handlers, run to the end
NoResp == [op |-> "none", status |-> "", room |-> NoRoom]
NoDirect == [pair |-> {}, room |-> NoRoom]

\* a handler with no other request in between: read, checks, save(), response
Serve(op, dec, rid) ==
  LET res == Save(rooms, dec.delta, FALSE)
      out == IF dec.delta.kind = "insert" THEN Len(res.rooms) ELSE rid
  IN  /\ Len(res.rooms) <= MaxRooms
      /\ rooms' = res.rooms
      /\ lastResp' = [op |-> op,
                      status |-> IF dec.delta.kind = "none" THEN dec.status
                                 ELSE IF res.ok THEN "ok" ELSE "error",
                      room |-> IF res.ok /\ dec.status = "ok" THEN out ELSE NoRoom]
      /\ UNCHANGED <<reqs, sockVars, msgVars, readVars, sendVars, userVars, fileServer, editVars>>

\* POST /api/rooms (createRoom): one insert, no read before it
CreateRoom(u, type, isPrivate, maxMembers) ==
  /\ Len(rooms) < MaxRooms
  /\ Serve("createRoom",
           Proceed(Insert(NewRoom(NoRoom, type, u, <<Member(u, "admin")>>,
                                  isPrivate, TRUE, maxMembers))), NoRoom)
  /\ UNCHANGED directResp

JoinRoom(u, rid) ==
  /\ Serve("joinRoom", joinRoom(findById(rooms, rid), u), rid)
  /\ UNCHANGED directResp

LeaveRoom(u, rid) ==
  /\ Serve("leaveRoom", leaveRoom(findById(rooms, rid), u), rid)
  /\ UNCHANGED directResp

AddMember(u, rid, t, role) ==
  /\ Serve("addMember", addMemberRest(findById(rooms, rid), u, t, role), rid)
  /\ UNCHANGED directResp

RemoveMember(u, rid, t) ==
  /\ Serve("removeMember", removeMemberRest(findById(rooms, rid), u, t), rid)
  /\ UNCHANGED directResp

UpdateMemberRole(u, rid, t, role) ==
  /\ Serve("updateMemberRole", updateRole(findById(rooms, rid), u, t, role), rid)
  /\ UNCHANGED directResp

UpdateRoom(u, rid, isPrivate, maxMembers) ==
  /\ Serve("updateRoom", updateRoom(findById(rooms, rid), u, isPrivate, maxMembers), rid)
  /\ UNCHANGED directResp

DeleteRoom(u, rid) ==
  /\ Serve("deleteRoom", deleteRoom(findById(rooms, rid), u), rid)
  /\ UNCHANGED directResp

CreateDirectRoom(u, t) ==
  /\ u # t
  /\ LET found == FindDirect(rooms, u, t)
     IN  Serve("createDirectRoom", createDirectRoom(found, u, t), found.id)
  /\ directResp' = [pair |-> {u, t}, room |-> lastResp'.room]

NoStatus == [user |-> NoUser, status |-> "", sessions |-> {}]
NoEmit == [room |-> NoRoom, to |-> {}, members |-> {}, live |-> {}]
NoOutcome ==
  [op |-> "none", status |-> "", changed |-> FALSE, emitted |-> FALSE,
   payload |-> <<>>, valid |-> FALSE, deleted |-> FALSE, own |-> FALSE,
   old |-> FALSE, admin |-> FALSE, member |-> FALSE]

\* no save() pending for a react request / for an updateLastRead call
IdleReact ==
  [kind |-> "none", id |-> 0, at |-> 0, entry |-> [emoji |-> "", users |-> <<>>],
   seen |-> <<>>]
IdleRead == [rid |-> NoRoom, user |-> NoUser, at |-> 0, seen |-> <<>>]

\* a User document: username and email as stored
NewUser(name, email) ==
  [exists |-> TRUE, isActive |-> TRUE, username |-> name, email |-> email]

NoAccount == [exists |-> FALSE, isActive |-> FALSE, username |-> "", email |-> ""]

\* the email the seeded user u registered with
EmailOf(u) == IF u = "a" THEN "a@x" ELSE IF u = "b" THEN "b@x" ELSE "c@x"

IdleSignup == [op |-> "none", id |-> NoUser, username |-> "", email |-> ""]

\* no socket request followed to its end yet
\* from: the socket of the request; user: who made it; content: the text or
\* the status asked for; read, persisted, changed: the store was read, the
\* write of the request was stored, the room was changed; errorTo, others: the
\* sockets sent the error, the other sockets sent an event of the request;
\* online, member: the user had a live session, was a member of the room;
\* unregistered: the registry entry was deleted; broadcast, to, alive:
\* user:status was emitted, the sockets it went to, the sockets then live;
\* strangers: the receivers whose user was not a member of the room; gone:
\* the room of the request was stored with isActive false; bad: the token of
\* the request was missing, malformed, expired, or of no active user; clash:
\* another user held the username or the email of the request
NoAnswer ==
  [op |-> "none", from |-> NoSocket, user |-> NoUser, status |-> "", content |-> "",
   read |-> FALSE, persisted |-> FALSE, changed |-> FALSE, errorTo |-> {},
   others |-> {}, online |-> FALSE, member |-> FALSE, unregistered |-> FALSE,
   broadcast |-> FALSE, to |-> {}, alive |-> {}, strangers |-> {}, gone |-> FALSE,
   bad |-> FALSE, clash |-> FALSE]

Init ==
  /\ rooms = <<>>
  /\ reqs = [k \in Slots |-> [delta |-> NoDelta, outdated |-> FALSE, pair |-> {}]]
  /\ lastResp = NoResp
  /\ directResp = NoDirect
  /\ live = {}
  /\ activeConnections = [u \in Users |-> NoSocket]
  /\ status = [u \in AccountIds |-> "offline"]
  /\ joined = {}
  /\ lastStatus = NoStatus
  /\ lastEmit = NoEmit
  /\ msgs = <<>>
  /\ now = 0
  /\ lastMsg = NoOutcome
  /\ reacts = [u \in Users |-> IdleReact]
  /\ conc = {}
  /\ reads = [k \in Slots |-> IdleRead]
  /\ lastReadAt = [rid \in RoomIds |-> [u \in Users |-> 0]]
  /\ highRead = [rid \in RoomIds |-> [u \in Users |-> 0]]
  /\ lastReq = NoAnswer
  /\ sends = <<>>
  /\ sentLog = <<>>
  /\ accounts = [u \in AccountIds |->
                   IF u \in Users THEN NewUser(u, EmailOf(u)) ELSE NoAccount]
  /\ signups = [k \in Slots |-> IdleSignup]
  /\ fileServer = [connected |-> {}, file |-> <<>>, pending |-> <<>>, aired |-> <<>>,
                   made |-> 0]
  /\ edits = <<>>
  /\ edited = [id \in MsgIds |-> <<>>]

NextRoom ==
  \/ \E u \in Users, type \in RoomTypes, p \in BOOLEAN, c \in CapChoices : CreateRoom(u, type, p, c)
  \/ \E u \in Users, rid \in RoomIds : JoinRoom(u, rid)
  \/ \E u \in Users, rid \in RoomIds : LeaveRoom(u, rid)
  \/ \E u, t \in Users, rid \in RoomIds, r \in Roles : AddMember(u, rid, t, r)
  \/ \E u, t \in Users, rid \in RoomIds : RemoveMember(u, rid, t)
  \/ \E u, t \in Users, rid \in RoomIds, r \in Roles : UpdateMemberRole(u, rid, t, r)
  \/ \E u \in Users, rid \in RoomIds, p \in BOOLEAN, c \in CapChoices : UpdateRoom(u, rid, p, c)
  \/ \E u, t \in Users : CreateDirectRoom(u, t)

\* the REST room handlers, one request at a time
SpecRoom == Init /\ [][NextRoom]_vars

\* ------------------------------------------- room handlers, interleaved
IdleReq == [delta |-> NoDelta, outdated |-> FALSE, pair |-> {}]
FreeSlots == {k \in Slots : reqs[k].delta.kind = "none"}
FirstFree == CHOOSE k \in FreeSlots : \A j \in FreeSlots : k <= j

\* the handler's read has returned and its checks are made: a refusal (or a
\* copy with nothing to save) is answered now, otherwise save() is pending
Handle(dec, pair) ==
  /\ dec.delta.kind # "none"
  /\ FreeSlots # {}
  /\ reqs' = [reqs EXCEPT ![FirstFree] = [delta |-> dec.delta, outdated |-> FALSE,
                                          pair |-> pair]]
  /\ UNCHANGED <<rooms, lastResp, sockVars, msgVars, readVars, sendVars, userVars, fileServer, editVars>>

\* a pending save() reaches the store; the handler answers
SaveDone(k) ==
  /\ reqs[k].delta.kind # "none"
  /\ LET x == reqs[k].delta
         res == Save(rooms, x, reqs[k].outdated)
     IN  /\ Len(res.rooms) <= MaxRooms
         /\ rooms' = res.rooms
         /\ directResp' = IF reqs[k].pair = {} THEN directResp
                          ELSE [pair |-> reqs[k].pair,
                                room |-> IF res.ok THEN Len(res.rooms) ELSE NoRoom]
         /\ reqs' = [j \in Slots |->
                       IF j = k THEN IdleReq
                       ELSE IF res.inc /\ reqs[j].delta.rid = x.rid
                            THEN [reqs[j] EXCEPT !.outdated = TRUE]
                            ELSE reqs[j]]
  /\ UNCHANGED <<lastResp, sockVars, msgVars, readVars, sendVars, userVars, fileServer, editVars>>

CreateRoomStart(u, type, isPrivate, maxMembers) ==
  /\ Len(rooms) < MaxRooms
  /\ Handle(Proceed(Insert(NewRoom(NoRoom, type, u, <<Member(u, "admin")>>,
                                   isPrivate, TRUE, maxMembers))), {})
  /\ UNCHANGED directResp

JoinRoomStart(u, rid) ==
  Handle(joinRoom(findById(rooms, rid), u), {}) /\ UNCHANGED directResp

LeaveRoomStart(u, rid) ==
  Handle(leaveRoom(findById(rooms, rid), u), {}) /\ UNCHANGED directResp

AddMemberStart(u, rid, t, role) ==
  Handle(addMemberRest(findById(rooms, rid), u, t, role), {}) /\ UNCHANGED directResp

RemoveMemberStart(u, rid, t) ==
  Handle(removeMemberRest(findById(rooms, rid), u, t), {}) /\ UNCHANGED directResp

UpdateMemberRoleStart(u, rid, t, role) ==
  Handle(updateRole(findById(rooms, rid), u, t, role), {}) /\ UNCHANGED directResp

UpdateRoomStart(u, rid, isPrivate, maxMembers) ==
  Handle(updateRoom(findById(rooms, rid), u, isPrivate, maxMembers), {})
  /\ UNCHANGED directResp

CreateDirectRoomStart(u, t) ==
  /\ u # t
  /\ LET found == FindDirect(rooms, u, t)
     IN  IF Exists(found)
         THEN /\ directResp' = [pair |-> {u, t}, room |-> found.id]
              /\ UNCHANGED <<rooms, reqs, lastResp, sockVars, msgVars, readVars, sendVars, userVars, fileServer, editVars>>
         ELSE /\ Handle(createDirectRoom(found, u, t), {u, t})
              /\ UNCHANGED directResp

NextRace ==
  \/ \E u \in Creators, type \in CreateTypes, c \in CapChoices : CreateRoomStart(u, type, FALSE, c)
  \/ \E u \in Users, rid \in RoomIds : JoinRoomStart(u, rid)
  \/ \E u \in Users, rid \in RoomIds : LeaveRoomStart(u, rid)
  \/ \E u, t \in Users, rid \in RoomIds : AddMemberStart(u, rid, t, "member")
  \/ \E u, t \in Users, rid \in RoomIds : RemoveMemberStart(u, rid, t)
  \/ \E u, t \in Users, rid \in RoomIds, r \in Roles : UpdateMemberRoleStart(u, rid, t, r)
  \/ \E u \in Users, rid \in RoomIds, c \in CapChoices : UpdateRoomStart(u, rid, FALSE, c)
  \/ \E u, t \in DirectUsers : CreateDirectRoomStart(u, t)
  \/ \E k \in Slots : SaveDone(k)

\* the REST room handlers with up to MaxInFlight saves pending at once
SpecRace == Init /\ [][NextRace]_vars

\* ------------------------------------------------- connection registry
\* socketAuth: the user a socket authenticated as (socket.userId)
Owner(s) == IF s = "s3" THEN "b" ELSE "a"

SessionsOf(set, u) == {x \in set : Owner(x) = u}

isUserOnline(u) == activeConnections[u] # NoSocket

\* io.on('connection'): activeConnections.set, user.updateStatus('online'),
\* socket.broadcast.emit('user:status')
Open(s) ==
  /\ s \notin live
  /\ live' = live \cup {s}
  /\ activeConnections' = [activeConnections EXCEPT ![Owner(s)] = s]
  /\ status' = [status EXCEPT ![Owner(s)] = "online"]
  /\ lastStatus' = [user |-> Owner(s), status |-> "online",
                    sessions |-> SessionsOf(live', Owner(s))]
  /\ UNCHANGED <<joined, lastEmit, roomVars, msgVars, readVars, sends, sentLog, userVars, fileServer, editVars>>

\* io.on('connection')
Connect(s) ==
  Open(s) /\ UNCHANGED lastReq

\* socket.on('disconnect'): activeConnections.delete, await
\* user.updateStatus('offline'), socket.broadcast.emit('user:status'); when
\* updateStatus rejects (fail) the catch block ends the handler
Close(s, fail) ==
  /\ s \in live
  /\ live' = live \ {s}
  /\ activeConnections' = [activeConnections EXCEPT ![Owner(s)] = NoSocket]
  /\ status' = IF fail THEN status ELSE [status EXCEPT ![Owner(s)] = "offline"]
  /\ lastStatus' = IF fail THEN lastStatus
                   ELSE [user |-> Owner(s), status |-> "offline",
                         sessions |-> SessionsOf(live', Owner(s))]
  /\ joined' = {p \in joined : p[1] # s}
  /\ UNCHANGED <<lastEmit, roomVars, msgVars, readVars, sends, sentLog, userVars, fileServer, editVars>>

\* socket.on('disconnect'), updateStatus resolving
Disconnect(s) ==
  Close(s, FALSE) /\ UNCHANGED lastReq

\* socket.on('status:update'): the includes() test, await
\* user.updateStatus(status), io.emit('user:status')
SetStatus(s, st) ==
  /\ s \in live
  /\ IF st \notin Statuses
     THEN UNCHANGED <<status, lastStatus>>
     ELSE /\ status' = [status EXCEPT ![Owner(s)] = st]
          /\ lastStatus' = [user |-> Owner(s), status |-> st,
                            sessions |-> SessionsOf(live, Owner(s))]
  /\ UNCHANGED <<live, activeConnections, joined, lastEmit, roomVars, msgVars, readVars,
                 sends, sentLog, userVars, fileServer, editVars>>

\* socket.on('status:update')
StatusUpdate(s, st) ==
  SetStatus(s, st) /\ UNCHANGED lastReq

NextPresence ==
  \/ \E s \in Sockets : Connect(s)
  \/ \E s \in Sockets : Disconnect(s)
  \/ \E s \in Sockets, st \in Statuses \cup {"offline"} : StatusUpdate(s, st)

\* connections, disconnections and status updates
SpecPresence == Init /\ [][NextPresence]_vars

\* ------------------------------------------------------- socket handlers
\* new Message({content, sender, room}); its _id is set on insert
NewMessage(id, rid, sender, content, at) ==
  [id |-> id, room |-> rid, sender |-> sender, content |-> content,
   isDeleted |-> FALSE, editHistory |-> <<>>, reactions |-> <<>>,
   createdAt |-> at, deletedBy |-> NoUser, deletedAt |-> 0]

InRoom(rid) == {x \in live : <<x, rid>> \in joined}

\* save() of a socket handler's copy, no other request in between
SocketSave(dec) ==
  /\ rooms' = Save(rooms, dec.delta, FALSE).rooms
  /\ Len(rooms') <= MaxRooms
  /\ UNCHANGED <<reqs, lastResp, directResp>>

\* the store takes the $set of members.<i>.lastReadAt that updateLastRead's
\* save() sends
StoreRead(rid, u, t) ==
  /\ lastReadAt' = [lastReadAt EXCEPT ![rid][u] = t]
  /\ highRead' = [highRead EXCEPT ![rid][u] = IF t > @ THEN t ELSE @]

\* socket.on('room:create')
RoomCreate(s, maxMembers) ==
  /\ s \in live
  /\ Len(rooms) < MaxRooms
  /\ SocketSave(Proceed(Insert(NewRoom(NoRoom, "group", Owner(s),
                                       <<Member(Owner(s), "admin")>>,
                                       FALSE, TRUE, maxMembers))))
  /\ joined' = joined \cup {<<s, Len(rooms')>>}
  /\ UNCHANGED <<live, activeConnections, status, lastStatus, lastEmit, msgVars, readVars, sendVars, userVars, fileServer, editVars>>

\* socket.on('room:join')
RoomJoin(s, rid) ==
  /\ s \in live
  /\ LET d == findById(rooms, rid)
     IN  IF Exists(d) /\ isMember(d, Owner(s))
         THEN /\ joined' = joined \cup {<<s, rid>>}
              /\ StoreRead(rid, Owner(s), now)
         ELSE UNCHANGED <<joined, readVars>>
  /\ UNCHANGED <<live, activeConnections, status, lastStatus, lastEmit, roomVars, msgVars,
                 sendVars, userVars, fileServer, editVars>>

\* socket.on('room:leave')
RoomLeave(s, rid) ==
  /\ s \in live
  /\ joined' = joined \ {<<s, rid>>}
  /\ UNCHANGED <<live, activeConnections, status, lastStatus, lastEmit, roomVars, msgVars, readVars, sendVars, userVars, fileServer, editVars>>

\* socket.on('room:invite')
RoomInvite(s, rid, t) ==
  /\ s \in live
  /\ SocketSave(roomInvite(findById(rooms, rid), Owner(s), t))
  /\ UNCHANGED <<sockVars, msgVars, readVars, sendVars, userVars, fileServer, editVars>>

\* socket.on('room:remove_member')
RoomRemoveMember(s, rid, t) ==
  /\ s \in live
  /\ SocketSave(roomRemoveMember(findById(rooms, rid), Owner(s), t))
  /\ UNCHANGED <<sockVars, msgVars, readVars, sendVars, userVars, fileServer, editVars>>

\* String.prototype.trim and String.prototype.length on the texts of Contents
Trim(c) == CASE c = " " -> "" [] c = " x " -> "x" [] OTHER -> c

Length(c) ==
  CASE c = "" -> 0 [] c = " " -> 1 [] c = " x " -> 3
    [] c = LongText -> MaxContent + 1 [] OTHER -> 1

\* message:send without the check of the length
messageSendAnyLength(d, u, content, fail) ==
  IF content = "" \/ Length(Trim(content)) = 0
  THEN [status |-> "invalid", read |-> FALSE, persist |-> FALSE, fanout |-> FALSE]
  ELSE IF fail = "read"
  THEN [status |-> "error", read |-> TRUE, persist |-> FALSE, fanout |-> FALSE]
  ELSE IF ~Exists(d)
  THEN [status |-> "not_found", read |-> TRUE, persist |-> FALSE, fanout |-> FALSE]
  ELSE IF ~isMember(d, u)
  THEN [status |-> "forbidden", read |-> TRUE, persist |-> FALSE, fanout |-> FALSE]
  ELSE IF fail = "message"
  THEN [status |-> "error", read |-> TRUE, persist |-> FALSE, fanout |-> FALSE]
  ELSE IF fail \in {"populate", "room"}
  THEN [status |-> "error", read |-> TRUE, persist |-> TRUE, fanout |-> FALSE]
  ELSE [status |-> "ok", read |-> TRUE, persist |-> TRUE, fanout |-> TRUE]

\* message:send emitting message:new before it saves the room
messageSendEmitsFirst(d, u, content, fail) ==
  IF content = "" \/ Length(Trim(content)) = 0
  THEN [status |-> "invalid", read |-> FALSE, persist |-> FALSE, fanout |-> FALSE]
  ELSE IF Length(content) > MaxContent
  THEN [status |-> "invalid", read |-> FALSE, persist |-> FALSE, fanout |-> FALSE]
  ELSE IF fail = "read"
  THEN [status |-> "error", read |-> TRUE, persist |-> FALSE, fanout |-> FALSE]
  ELSE IF ~Exists(d)
  THEN [status |-> "not_found", read |-> TRUE, persist |-> FALSE, fanout |-> FALSE]
  ELSE IF ~isMember(d, u)
  THEN [status |-> "forbidden", read |-> TRUE, persist |-> FALSE, fanout |-> FALSE]
  ELSE IF fail \in {"message", "populate"}
  THEN [status |-> "error", read |-> TRUE, persist |-> (fail = "populate"), fanout |-> FALSE]
  ELSE IF fail = "room"
  THEN [status |-> "error", read |-> TRUE, persist |-> TRUE, fanout |-> TRUE]
  ELSE [status |-> "ok", read |-> TRUE, persist |-> TRUE, fanout |-> TRUE]

\* socket.on('message:send'), as far as it gets: fail names the store call
\* that rejects ("none": no store call rejects). read: Room.findById was
\* called; persist: message.save() resolved; fanout: message:new is emitted
messageSend(d, u, content, fail) ==
  IF content = "" \/ Length(Trim(content)) = 0
  THEN [status |-> "invalid", read |-> FALSE, persist |-> FALSE, fanout |-> FALSE]
  ELSE IF Length(content) > MaxContent
  THEN [status |-> "invalid", read |-> FALSE, persist |-> FALSE, fanout |-> FALSE]
  ELSE IF fail = "read"
  THEN [status |-> "error", read |-> TRUE, persist |-> FALSE, fanout |-> FALSE]
  ELSE IF ~Exists(d)
  THEN [status |-> "not_found", read |-> TRUE, persist |-> FALSE, fanout |-> FALSE]
  ELSE IF ~isMember(d, u)
  THEN [status |-> "forbidden", read |-> TRUE, persist |-> FALSE, fanout |-> FALSE]
  ELSE IF fail = "message"
  THEN [status |-> "error", read |-> TRUE, persist |-> FALSE, fanout |-> FALSE]
  ELSE IF fail \in {"populate", "room"}
  THEN [status |-> "error", read |-> TRUE, persist |-> TRUE, fanout |-> FALSE]
  ELSE [status |-> "ok", read |-> TRUE, persist |-> TRUE, fanout |-> TRUE]

\* what message:send leaves in the store and what it emits
Send(s, rid, content, fail) ==
  LET d == findById(rooms, rid)
      ans == messageSend(d, Owner(s), content, fail)
  IN  /\ s \in live
      /\ ans.persist => Len(msgs) < MaxMsgs
      /\ msgs' = IF ans.persist
                 THEN Append(msgs, NewMessage(Len(msgs) + 1, rid, Owner(s),
                                              Trim(content), now))
                 ELSE msgs
      /\ lastEmit' = IF ans.fanout
                     THEN [room |-> rid, to |-> InRoom(rid),
                           members |-> MemberUsers(d), live |-> live]
                     ELSE lastEmit
      /\ rooms' = IF ans.fanout
                  THEN [rooms EXCEPT ![rid].lastMessage = Len(msgs')]
                  ELSE rooms
      /\ UNCHANGED <<live, activeConnections, status, joined, lastStatus, reqs, lastResp,
                     directResp, now, lastMsg, reacts, conc, reads, readVars, sends,
                     sentLog, userVars, fileServer, editVars>>

\* socket.on('message:send'), no store call rejecting
MessageSend(s, rid, content) ==
  Send(s, rid, content, "none") /\ UNCHANGED lastReq

NextFan ==
  \/ \E s \in FanSockets : Connect(s)
  \/ \E s \in FanSockets : Disconnect(s)
  \/ \E s \in FanSockets, c \in CapChoices : RoomCreate(s, c)
  \/ \E s \in FanSockets, rid \in RoomIds : RoomJoin(s, rid)
  \/ \E s \in FanSockets, rid \in RoomIds : RoomLeave(s, rid)
  \/ \E s \in FanSockets, rid \in RoomIds, t \in DirectUsers : RoomInvite(s, rid, t)
  \/ \E s \in FanSockets, rid \in RoomIds, t \in DirectUsers : RoomRemoveMember(s, rid, t)
  \/ \E u \in DirectUsers, rid \in RoomIds : JoinRoom(u, rid)
  \/ \E u \in DirectUsers, rid \in RoomIds : LeaveRoom(u, rid)
  \/ \E s \in FanSockets, rid \in RoomIds, c \in {"", "x"} : MessageSend(s, rid, c)

\* room subscriptions, membership changes and message:send
SpecFan == Init /\ [][NextFan]_vars

\* ----------------------------------------------------------- Message model
NoMsg == [id |-> 0, room |-> NoRoom, sender |-> NoUser, content |-> "",
          isDeleted |-> FALSE, editHistory |-> <<>>, reactions |-> <<>>,
          createdAt |-> 0, deletedBy |-> NoUser, deletedAt |-> 0]

findMessage(id) == IF id \in DOMAIN msgs THEN msgs[id] ELSE NoMsg

\* reactions.find(r => r.emoji === emoji): its index, 0 when none
FindReaction(rs, emoji) ==
  IF \E i \in DOMAIN rs : rs[i].emoji = emoji
  THEN CHOOSE i \in DOMAIN rs :
         rs[i].emoji = emoji /\ \A j \in DOMAIN rs : rs[j].emoji = emoji => i <= j
  ELSE 0

Includes(seq, u) == \E i \in DOMAIN seq : seq[i] = u

\* pre('save'): reaction.count = reaction.users.length
Count(r) == Len(r.users)

\* When the emoji has no entry, a plain object is pushed to this.reactions
\* and the user is then pushed to the users array of that plain object.
\* The document array casts what is pushed to it into a subdocument of its
\* own; kept: the stored subdocument sees the later push to the plain object
addReaction(m, emoji, u, kept) ==
  LET i == FindReaction(m.reactions, emoji)
  IN  IF i = 0
      THEN [m EXCEPT !.reactions =
              Append(@, [emoji |-> emoji, users |-> IF kept THEN <<u>> ELSE <<>>])]
      ELSE IF Includes(m.reactions[i].users, u) THEN m
      ELSE [m EXCEPT !.reactions[i].users = Append(@, u)]

removeReaction(m, emoji, u) ==
  LET i == FindReaction(m.reactions, emoji)
  IN  IF i = 0 THEN m
      ELSE LET left == SelectSeq(m.reactions[i].users, LAMBDA x : x # u)
           IN  [m EXCEPT !.reactions =
                  IF left = <<>>
                  THEN SelectSeq(m.reactions, LAMBDA r : r.emoji # emoji)
                  ELSE [m.reactions EXCEPT ![i].users = left]]

editContent(m, newContent) ==
  [m EXCEPT !.editHistory = Append(@, m.content), !.content = newContent]

softDelete(m, u) ==
  [m EXCEPT !.isDeleted = TRUE, !.deletedAt = now, !.deletedBy = u,
            !.content = DeletedText]

\* message.createdAt < Date.now() - 15 minutes
TooOld(m) == m.createdAt < now - EditWindow

\* ------------------------------------------------------- message handlers
\* what a handler answers and the document it saves (m when it saves nothing)
Answer(why, m) == [status |-> why, doc |-> m]

\* message:edit without the age check
messageEditAnyAge(m, u, content) ==
  IF content = "" THEN Answer("invalid", m)
  ELSE IF m.id = 0 THEN Answer("not_found", m)
  ELSE IF m.sender # u THEN Answer("not_sender", m)
  ELSE Answer("ok", editContent(m, content))

\* socket message:edit
messageEdit(m, u, content) ==
  IF content = "" THEN Answer("invalid", m)
  ELSE IF m.id = 0 THEN Answer("not_found", m)
  ELSE IF m.sender # u THEN Answer("not_sender", m)
  ELSE IF TooOld(m) THEN Answer("too_old", m)
  ELSE Answer("ok", editContent(m, content))

\* updateMessage without the sender check
updateMessageAnyone(m, u, content) ==
  IF content = "" THEN Answer("invalid", m)
  ELSE IF m.id = 0 \/ m.isDeleted THEN Answer("not_found", m)
  ELSE IF TooOld(m) THEN Answer("too_old", m)
  ELSE Answer("ok", editContent(m, content))

\* PUT /api/messages/:messageId
updateMessage(m, u, content) ==
  IF content = "" THEN Answer("invalid", m)
  ELSE IF m.id = 0 \/ m.isDeleted THEN Answer("not_found", m)
  ELSE IF m.sender # u THEN Answer("not_sender", m)
  ELSE IF TooOld(m) THEN Answer("too_old", m)
  ELSE Answer("ok", editContent(m, content))

\* message:delete with the room's members allowed to delete
messageDeleteByMember(m, u) ==
  IF m.id = 0 THEN Answer("not_found", m)
  ELSE IF ~(m.sender = u \/ isMember(findById(rooms, m.room), u))
       THEN Answer("forbidden", m)
  ELSE Answer("ok", softDelete(m, u))

\* socket message:delete
messageDelete(m, u) ==
  IF m.id = 0 THEN Answer("not_found", m)
  ELSE IF ~(m.sender = u \/ isAdmin(findById(rooms, m.room), u))
       THEN Answer("forbidden", m)
  ELSE Answer("ok", softDelete(m, u))

\* DELETE /api/messages/:messageId
deleteMessage(m, u) ==
  IF m.id = 0 \/ m.isDeleted THEN Answer("not_found", m)
  ELSE IF ~(m.sender = u \/ isAdmin(findById(rooms, m.room), u))
       THEN Answer("forbidden", m)
  ELSE Answer("ok", softDelete(m, u))

\* message:react without the membership check
messageReactAnyone(m, u, emoji, kept) ==
  IF m.id = 0 THEN Answer("not_found", m)
  ELSE Answer("ok", addReaction(m, emoji, u, kept))

\* socket message:react
messageReact(m, u, emoji, kept) ==
  IF m.id = 0 THEN Answer("not_found", m)
  ELSE IF ~isMember(findById(rooms, m.room), u) THEN Answer("forbidden", m)
  ELSE Answer("ok", addReaction(m, emoji, u, kept))

\* POST /api/messages/:messageId/reactions
addReactionRest(m, u, emoji, kept) ==
  IF m.id = 0 \/ m.isDeleted THEN Answer("not_found", m)
  ELSE IF ~isMember(findById(rooms, m.room), u) THEN Answer("forbidden", m)
  ELSE Answer("ok", addReaction(m, emoji, u, kept))

\* socket message:unreact
messageUnreact(m, u, emoji) ==
  IF m.id = 0 THEN Answer("not_found", m)
  ELSE Answer("ok", removeReaction(m, emoji, u))

\* DELETE /api/messages/:messageId/reactions
removeReactionRest(m, u, emoji) ==
  IF m.id = 0 \/ m.isDeleted THEN Answer("not_found", m)
  ELSE Answer("ok", removeReaction(m, emoji, u))

\* the handler's save() and its answer; fan: the handler emits to the room
\* once its save() is done. The request is recorded with what held of it:
\* its content was valid, the message was deleted, the requester was its
\* sender, it was past the edit window, the requester was admin / member of
\* the message's room
Reply(op, id, u, ans, valid, fan) ==
  LET m == findMessage(id)
      d == findById(rooms, m.room)
  IN  /\ Len(ans.doc.editHistory) <= MaxEdits
      /\ msgs' = IF id \in DOMAIN msgs THEN [msgs EXCEPT ![id] = ans.doc] ELSE msgs
      /\ lastMsg' = [op |-> op, status |-> ans.status,
                     changed |-> (ans.doc # m),
                     emitted |-> (fan /\ ans.status = "ok"),
                     payload |-> IF fan /\ ans.status = "ok" /\ op \in {"react", "unreact"}
                                 THEN ans.doc.reactions ELSE <<>>,
                     valid |-> valid,
                     deleted |-> m.isDeleted,
                     own |-> (m.id # 0 /\ m.sender = u),
                     old |-> (m.id # 0 /\ TooOld(m)),
                     admin |-> \/ \E i \in DOMAIN d.members :
                                     d.members[i] = Member(u, "admin")
                               \/ (m.id # 0 /\ d.creator = u),
                     member |-> (m.id # 0 /\ isMember(d, u))]
      /\ UNCHANGED <<now, reacts, conc, reads, roomVars, sockVars, readVars, sendVars, userVars, fileServer, editVars>>

MessageEdit(s, id, content) ==
  /\ s \in live
  /\ Reply("edit", id, Owner(s), messageEdit(findMessage(id), Owner(s), content),
           content # "", TRUE)

UpdateMessage(u, id, content) ==
  Reply("edit", id, u, updateMessage(findMessage(id), u, content), content # "", FALSE)

MessageDelete(s, id) ==
  /\ s \in live
  /\ Reply("delete", id, Owner(s), messageDelete(findMessage(id), Owner(s)), TRUE, TRUE)

DeleteMessage(u, id) ==
  Reply("delete", id, u, deleteMessage(findMessage(id), u), TRUE, FALSE)

MessageReact(s, id, emoji) ==
  /\ s \in live
  /\ \E kept \in BOOLEAN :
       Reply("react", id, Owner(s),
             messageReact(findMessage(id), Owner(s), emoji, kept), TRUE, TRUE)

AddReaction(u, id, emoji) ==
  \E kept \in BOOLEAN :
    Reply("react", id, u, addReactionRest(findMessage(id), u, emoji, kept), TRUE, FALSE)

MessageUnreact(s, id, emoji) ==
  /\ s \in live
  /\ Reply("unreact", id, Owner(s), messageUnreact(findMessage(id), Owner(s), emoji),
           TRUE, TRUE)

RemoveReaction(u, id, emoji) ==
  Reply("unreact", id, u, removeReactionRest(findMessage(id), u, emoji), TRUE, FALSE)

\* time passes, to a later instant at which the clock is read
Tick ==
  /\ \E t \in Instants : t > now /\ now' = t
  /\ UNCHANGED <<msgs, lastMsg, reacts, conc, reads, roomVars, sockVars, readVars, sendVars, userVars, fileServer, editVars>>

NextMsg ==
  \/ \E s \in FanSockets : Connect(s)
  \/ \E s \in FanSockets : RoomCreate(s, MaxCap)
  \/ \E s \in FanSockets, rid \in RoomIds, t \in DirectUsers : RoomInvite(s, rid, t)
  \/ \E s \in FanSockets, rid \in RoomIds, c \in {"", "x"} : MessageSend(s, rid, c)
  \/ \E s \in FanSockets, id \in MsgIds, c \in {"", "y"} : MessageEdit(s, id, c)
  \/ \E u \in DirectUsers, id \in MsgIds, c \in {"", "y"} : UpdateMessage(u, id, c)
  \/ \E s \in FanSockets, id \in MsgIds : MessageDelete(s, id)
  \/ \E u \in DirectUsers, id \in MsgIds : DeleteMessage(u, id)
  \/ \E s \in FanSockets, id \in MsgIds, e \in Emojis : MessageReact(s, id, e)
  \/ \E u \in DirectUsers, id \in MsgIds, e \in Emojis : AddReaction(u, id, e)
  \/ \E s \in FanSockets, id \in MsgIds, e \in Emojis : MessageUnreact(s, id, e)
  \/ \E u \in DirectUsers, id \in MsgIds, e \in Emojis : RemoveReaction(u, id, e)
  \/ Tick

\* the life of a message: send, edit, delete, react, unreact
SpecMsg == Init /\ [][NextMsg]_vars

\* ------------------------------------------- react requests, interleaved
\* what save() sends for the copy addReaction changed: a $push of the new
\* entry to reactions (sent with $inc __v, whatever __v is stored), or a $push
\* of the user to reactions.<at>.users (sent with the __v that was read as a
\* condition); nothing when addReaction left the copy as it was
ReactDelta(m, after) ==
  IF after = m THEN IdleReact
  ELSE IF Len(after.reactions) > Len(m.reactions)
       THEN [kind |-> "entry", id |-> m.id, at |-> 0,
             entry |-> after.reactions[Len(after.reactions)], seen |-> m.reactions]
  ELSE LET i == CHOOSE j \in DOMAIN m.reactions : after.reactions[j] # m.reactions[j]
       IN  [kind |-> "user", id |-> m.id, at |-> i, entry |-> after.reactions[i],
            seen |-> m.reactions]

\* the requests of other users on the same message and emoji that are pending
Racing(u, id, emoji) ==
  {v \in Users \ {u} : /\ reacts[v].kind # "none" /\ reacts[v].id = id
                        /\ reacts[v].entry.emoji = emoji}

\* the handler's read has returned, its checks are made and addReaction has
\* changed the copy: a refusal, or a copy left as it was, is answered now,
\* otherwise save() is pending
ReactStart(u, id, emoji, ans) ==
  LET x == ReactDelta(findMessage(id), ans.doc)
  IN  /\ reacts[u].kind = "none"
      /\ IF ans.status # "ok" \/ x.kind = "none"
         THEN UNCHANGED <<reacts, conc>>
         ELSE /\ reacts' = [reacts EXCEPT ![u] = x]
              /\ conc' = IF Racing(u, id, emoji) = {} THEN conc
                         ELSE conc \cup {<<v, id, emoji>> : v \in Racing(u, id, emoji) \cup {u}}
      /\ UNCHANGED <<msgs, now, lastMsg, reads, roomVars, sockVars, readVars, sendVars, userVars, fileServer, editVars>>

MessageReactStart(s, id, emoji) ==
  /\ s \in live
  /\ \E kept \in BOOLEAN :
       ReactStart(Owner(s), id, emoji, messageReact(findMessage(id), Owner(s), emoji, kept))

AddReactionStart(u, id, emoji) ==
  \E kept \in BOOLEAN :
    ReactStart(u, id, emoji, addReactionRest(findMessage(id), u, emoji, kept))

\* a pending save() reaches the store: the new entry is appended to what is
\* stored; the user is appended to the entry unless reactions changed since
\* the read (__v was incremented: VersionError, the handler answers an error)
ReactDone(u) ==
  /\ reacts[u].kind # "none"
  /\ LET x == reacts[u]
         stale == findMessage(x.id).reactions # x.seen
     IN  msgs' = IF x.kind = "entry"
                 THEN [msgs EXCEPT ![x.id].reactions = Append(@, x.entry)]
                 ELSE IF stale THEN msgs
                 ELSE [msgs EXCEPT ![x.id].reactions[x.at].users = Append(@, u)]
  /\ reacts' = [reacts EXCEPT ![u] = IdleReact]
  /\ UNCHANGED <<now, lastMsg, conc, reads, roomVars, sockVars, readVars, sendVars, userVars, fileServer, editVars>>

NextReact ==
  \/ \E s \in FanSockets : Connect(s)
  \/ \E s \in FanSockets : RoomCreate(s, MaxCap)
  \/ \E s \in FanSockets, rid \in RoomIds, t \in Users : RoomInvite(s, rid, t)
  \/ \E s \in FanSockets, rid \in RoomIds : MessageSend(s, rid, "x")
  \/ \E s \in FanSockets, id \in MsgIds, e \in Emojis : MessageReactStart(s, id, e)
  \/ \E u \in Users, id \in MsgIds, e \in Emojis : AddReactionStart(u, id, e)
  \/ \E u \in Users : ReactDone(u)

\* react requests of several users, the read and the save() of each apart
SpecReact == Init /\ [][NextReact]_vars

\* ----------------------------------------------- read watermark, interleaved
ReadSockets == {"s1", "s2"}

\* the members array as a document holds it, by position
MemberList(d) == [i \in DOMAIN d.members |-> d.members[i].user]

\* roomSchema.methods.updateLastRead on the copy d: member.lastReadAt = new
\* Date(), then save(), which sends a $set of members.<i>.lastReadAt with the
\* __v that was read as a condition; nothing to save when u is no member
updateLastRead(d, u) ==
  IF isMember(d, u)
  THEN [rid |-> d.id, user |-> u, at |-> now, seen |-> MemberList(d)]
  ELSE IdleRead

FreeReads == {k \in Slots : reads[k].rid = NoRoom}

\* the handler's read has returned and its checks are made: a refusal is
\* answered now, otherwise the save() of updateLastRead is pending
ReadStart(d, u) ==
  IF ~Exists(d) \/ ~isMember(d, u) THEN UNCHANGED reads
  ELSE /\ FreeReads # {}
       /\ reads' = [reads EXCEPT ![CHOOSE k \in FreeReads : \A j \in FreeReads : k <= j] =
                      updateLastRead(d, u)]

\* socket.on('room:join'): socket.join, then await room.updateLastRead
RoomJoinStart(s, rid) ==
  /\ s \in live
  /\ ReadStart(findById(rooms, rid), Owner(s))
  /\ LET d == findById(rooms, rid)
     IN  joined' = IF Exists(d) /\ isMember(d, Owner(s))
                   THEN joined \cup {<<s, rid>>} ELSE joined
  /\ UNCHANGED <<live, activeConnections, status, lastStatus, lastEmit, roomVars,
                 msgs, now, lastMsg, reacts, conc, readVars, sendVars, userVars, fileServer, editVars>>

\* socket.on('messages:mark_read')
MessagesMarkReadStart(s, rid) ==
  /\ s \in live
  /\ ReadStart(findById(rooms, rid), Owner(s))
  /\ UNCHANGED <<sockVars, roomVars, msgs, now, lastMsg, reacts, conc, readVars, sendVars, userVars, fileServer, editVars>>

\* POST /api/messages/room/:roomId/read (markAsRead)
MarkAsReadStart(u, rid) ==
  /\ ReadStart(findById(rooms, rid), u)
  /\ UNCHANGED <<sockVars, roomVars, msgs, now, lastMsg, reacts, conc, readVars, sendVars, userVars, fileServer, editVars>>

\* a pending save() of updateLastRead reaches the store: the instant the
\* handler took is stored, unless the members array was pushed to since the
\* read (__v was incremented: VersionError, the handler answers an error)
ReadDone(k) ==
  /\ reads[k].rid # NoRoom
  /\ IF MemberList(findById(rooms, reads[k].rid)) = reads[k].seen
     THEN StoreRead(reads[k].rid, reads[k].user, reads[k].at)
     ELSE UNCHANGED readVars
  /\ reads' = [reads EXCEPT ![k] = IdleRead]
  /\ UNCHANGED <<sockVars, roomVars, msgs, now, lastMsg, reacts, conc, sendVars, userVars, fileServer, editVars>>

NextRead ==
  \/ \E s \in ReadSockets : Connect(s)
  \/ \E s \in ReadSockets : RoomCreate(s, MaxCap)
  \/ \E s \in ReadSockets, rid \in RoomIds, t \in DirectUsers : RoomInvite(s, rid, t)
  \/ \E s \in ReadSockets, rid \in RoomIds : RoomJoinStart(s, rid)
  \/ \E s \in ReadSockets, rid \in RoomIds : MessagesMarkReadStart(s, rid)
  \/ \E u \in DirectUsers, rid \in RoomIds : MarkAsReadStart(u, rid)
  \/ \E k \in Slots : ReadDone(k)
  \/ Tick

\* mark-read and room:join of one member's sessions, the read and the save()
\* of each apart
SpecRead == Init /\ [][NextRead]_vars

\* ------------------------------------------------------------ unread count
\* messageSchema.statics.getUnreadCount: countDocuments({room, sender: {$ne:
\* userId}, createdAt: {$gt: lastReadAt}, isDeleted: false})
UnreadCount(rid, u, since) ==
  Cardinality({id \in DOMAIN msgs : /\ msgs[id].room = rid
                                    /\ msgs[id].sender # u
                                    /\ msgs[id].createdAt > since
                                    /\ ~msgs[id].isDeleted})

\* GET /api/messages/room/:roomId/unread
getUnreadCount(rid, u) ==
  LET d == findById(rooms, rid)
  IN  IF ~Exists(d) THEN [status |-> "not_found", unreadCount |-> 0]
      ELSE IF ~isMember(d, u) THEN [status |-> "forbidden", unreadCount |-> 0]
      ELSE [status |-> "ok", unreadCount |-> UnreadCount(rid, u, lastReadAt[rid][u])]

NextUnread ==
  \/ \E s \in FanSockets : Connect(s)
  \/ \E s \in FanSockets : RoomCreate(s, MaxCap)
  \/ \E s \in FanSockets, rid \in RoomIds, t \in DirectUsers : RoomInvite(s, rid, t)
  \/ \E s \in FanSockets, rid \in RoomIds : MessageSend(s, rid, "x")
  \/ \E u \in DirectUsers, id \in MsgIds : DeleteMessage(u, id)
  \/ \E u \in DirectUsers, rid \in RoomIds : MarkAsReadStart(u, rid)
  \/ \E k \in Slots : ReadDone(k)
  \/ Tick

\* messages sent and deleted while mark-read requests are in flight
SpecUnread == Init /\ [][NextUnread]_vars

\* ----------------------------------------- socket requests and their answer
\* message:send followed to its answer: the error event goes to the socket of
\* the request (socket.emit), message:new to the sockets in the room (io.to)
MessageSendAnswered(s, rid, content, fail) ==
  LET ans == messageSend(findById(rooms, rid), Owner(s), content, fail)
  IN  /\ Send(s, rid, content, fail)
      /\ lastReq' = [NoAnswer EXCEPT
                       !.op = "send", !.from = s, !.user = Owner(s),
                       !.status = ans.status, !.content = content, !.read = ans.read,
                       !.persisted = (msgs' # msgs), !.changed = (rooms' # rooms),
                       !.errorTo = IF ans.status = "ok" THEN {} ELSE {s},
                       !.others = IF ans.fanout THEN InRoom(rid) \ {s} ELSE {},
                       !.gone = ~findById(rooms, rid).isActive /\ Exists(findById(rooms, rid))]

\* room:remove_member followed to its answer; fail names the store call that
\* rejects: the read of the room, the save() of removeMember, or one of the
\* calls on User after it. room:member_removed goes to the sockets in the
\* room, room:removed to the registered connection of the removed user
RoomRemoveMemberAnswered(s, rid, t, fail) ==
  LET dec == roomRemoveMember(findById(rooms, rid), Owner(s), t)
      saved == fail \notin {"read", "save"} /\ dec.delta.kind # "none"
      ok == saved /\ fail = "none"
  IN  /\ s \in live
      /\ IF saved THEN SocketSave(dec) ELSE UNCHANGED roomVars
      /\ lastReq' = [NoAnswer EXCEPT
                       !.op = "remove_member", !.from = s, !.user = Owner(s),
                       !.status = IF ok THEN "ok"
                                  ELSE IF fail # "read" /\ dec.delta.kind = "none"
                                       THEN dec.status ELSE "error",
                       !.read = TRUE, !.changed = (rooms' # rooms),
                       !.errorTo = IF ok THEN {} ELSE {s},
                       !.others = IF ok
                                  THEN (InRoom(rid) \cup ({activeConnections[t]} \cap live)) \ {s}
                                  ELSE {}]
      /\ UNCHANGED <<sockVars, msgs, now, lastMsg, reacts, conc, reads, readVars,
                     sends, sentLog, userVars, fileServer, editVars>>

\* room:leave followed to its answer: refused only when no room id is given
RoomLeaveAnswered(s, rid) ==
  /\ s \in live
  /\ joined' = joined \ {<<s, rid>>}
  /\ lastReq' = [NoAnswer EXCEPT
                   !.op = "leave", !.from = s, !.user = Owner(s),
                   !.status = IF rid = NoRoom THEN "invalid" ELSE "ok",
                   !.errorTo = IF rid = NoRoom THEN {s} ELSE {},
                   !.others = IF rid = NoRoom THEN {} ELSE (InRoom(rid) \ {s})]
  /\ UNCHANGED <<live, activeConnections, status, lastStatus, lastEmit, roomVars,
                 msgs, now, lastMsg, reacts, conc, reads, readVars, sends, sentLog, userVars, fileServer, editVars>>

NextSend ==
  \/ \E s \in FanSockets : Connect(s)
  \/ \E s \in FanSockets : RoomCreate(s, MaxCap)
  \/ \E s \in FanSockets, rid \in RoomIds, t \in DirectUsers : RoomInvite(s, rid, t)
  \/ \E s \in FanSockets, rid \in RoomIds : RoomJoin(s, rid)
  \/ \E s \in FanSockets, rid \in RoomIds, c \in Contents, f \in SendFails :
       MessageSendAnswered(s, rid, c, f)
  \/ \E s \in FanSockets, rid \in RoomIds, t \in DirectUsers, f \in RemoveFails :
       RoomRemoveMemberAnswered(s, rid, t, f)
  \/ \E s \in FanSockets, rid \in RoomIds \cup {NoRoom} : RoomLeaveAnswered(s, rid)

\* socket requests, each followed to its answer
SpecSend == Init /\ [][NextSend]_vars

\* ------------------------------------------- message:send, await by await
\* the arrival number of the next message:send event
NextArrival ==
  LET used == {sends[i].n : i \in DOMAIN sends} \cup {sentLog[i].n : i \in DOMAIN sentLog}
  IN  IF used = {} THEN 1 ELSE 1 + CHOOSE n \in used : \A x \in used : x <= n

\* the handlers in flight without the k-th
Without(k) == [i \in 1..(Len(sends) - 1) |-> IF i < k THEN sends[i] ELSE sends[i + 1]]

\* the event arrives and its handler runs up to await Room.findById: a content
\* that is not valid is answered now
SendArrive(s, rid, content) ==
  /\ s \in live
  /\ NextArrival <= MaxSends
  /\ sends' = IF messageSend(NoDoc, Owner(s), content, "none").read
              THEN Append(sends, [n |-> NextArrival, s |-> s, rid |-> rid,
                                  content |-> content, pc |-> "read", at |-> 0,
                                  id |-> 0])
              ELSE sends
  /\ UNCHANGED <<sockVars, roomVars, msgs, now, lastMsg, reacts, conc, reads, readVars,
                 lastReq, sentLog, userVars, fileServer, editVars>>

\* Room.findById resolves: the checks on the room, new Message, and
\* message.save() is awaited; a refusal is answered now
SendRead(k) ==
  /\ k \in DOMAIN sends /\ sends[k].pc = "read"
  /\ sends' = IF messageSend(findById(rooms, sends[k].rid), Owner(sends[k].s),
                             sends[k].content, "none").persist
              THEN [sends EXCEPT ![k].pc = "save", ![k].at = now]
              ELSE Without(k)
  /\ UNCHANGED <<sockVars, roomVars, msgs, now, lastMsg, reacts, conc, reads, readVars,
                 lastReq, sentLog, userVars, fileServer, editVars>>

\* message.save() resolves: the message is in the store; populate and
\* room.save() are awaited
SendSaved(k) ==
  /\ k \in DOMAIN sends /\ sends[k].pc = "save"
  /\ Len(msgs) < MaxSends
  /\ msgs' = Append(msgs, NewMessage(Len(msgs) + 1, sends[k].rid, Owner(sends[k].s),
                                     Trim(sends[k].content), sends[k].at))
  /\ sends' = [sends EXCEPT ![k].pc = "emit", ![k].id = Len(msgs')]
  /\ UNCHANGED <<sockVars, roomVars, now, lastMsg, reacts, conc, reads, readVars,
                 lastReq, sentLog, userVars, fileServer, editVars>>

\* populate and room.save() have resolved: the room holds lastMessage as this
\* handler set it, and message:new is emitted to the room
SendEmit(k) ==
  /\ k \in DOMAIN sends /\ sends[k].pc = "emit"
  /\ sentLog' = Append(sentLog, [n |-> sends[k].n, s |-> sends[k].s,
                                 rid |-> sends[k].rid, at |-> sends[k].at])
  /\ lastEmit' = [room |-> sends[k].rid, to |-> InRoom(sends[k].rid),
                  members |-> MemberUsers(findById(rooms, sends[k].rid)), live |-> live]
  /\ sends' = Without(k)
  /\ rooms' = [rooms EXCEPT ![sends[k].rid].lastMessage = sends[k].id]
  /\ UNCHANGED <<live, activeConnections, status, joined, lastStatus, reqs, lastResp,
                 directResp, msgs, now, lastMsg, reacts, conc, reads, readVars, lastReq,
                 userVars, fileServer, editVars>>

NextOrder ==
  \/ \E s \in FanSockets : Connect(s)
  \/ \E s \in FanSockets : RoomCreate(s, MaxCap)
  \/ \E s \in FanSockets, rid \in RoomIds, t \in DirectUsers : RoomInvite(s, rid, t)
  \/ \E s \in FanSockets, rid \in RoomIds, c \in {" ", "x"} : SendArrive(s, rid, c)
  \/ \E k \in 1..MaxSends : SendRead(k)
  \/ \E k \in 1..MaxSends : SendSaved(k)
  \/ \E k \in 1..MaxSends : SendEmit(k)
  \/ Tick

\* message:send handlers in flight together, each await resolving on its own
SpecOrder == Init /\ [][NextOrder]_vars

\* ------------------------------------------ presence requests, followed up
\* io.on('connection') with the user:status it broadcasts
ConnectEnded(s) ==
  /\ Open(s)
  /\ lastReq' = [NoAnswer EXCEPT
                   !.op = "connect", !.from = s, !.user = Owner(s), !.status = "ok",
                   !.content = "online", !.online = TRUE, !.persisted = TRUE,
                   !.broadcast = TRUE, !.to = live \ {s}, !.alive = live \cup {s}]

\* socket.on('disconnect') followed to the end of the handler
DisconnectEnded(s, fail) ==
  /\ Close(s, fail)
  /\ lastReq' = [NoAnswer EXCEPT
                   !.op = "disconnect", !.from = s, !.user = Owner(s),
                   !.status = IF fail THEN "error" ELSE "ok", !.content = "offline",
                   !.unregistered = TRUE, !.persisted = ~fail, !.broadcast = ~fail,
                   !.to = IF fail THEN {} ELSE live \ {s}, !.alive = live \ {s}]

\* socket.on('status:update') with its answer: io.emit goes to every socket
StatusUpdateAnswered(s, st) ==
  /\ SetStatus(s, st)
  /\ lastReq' = [NoAnswer EXCEPT
                   !.op = "status", !.from = s, !.user = Owner(s),
                   !.status = IF st \in Statuses THEN "ok" ELSE "invalid",
                   !.content = st, !.online = (SessionsOf(live, Owner(s)) # {}),
                   !.persisted = (st \in Statuses), !.broadcast = (st \in Statuses),
                   !.errorTo = IF st \in Statuses THEN {} ELSE {s},
                   !.to = IF st \in Statuses THEN live ELSE {}, !.alive = live]

\* updateStatusValidation: body('status').isIn([...])
RestStatuses == {"online", "away", "busy", "offline"}

\* PUT /api/users/status (updateStatus): validation, user.updateStatus(status),
\* the response; no event is emitted
UpdateStatus(u, st) ==
  /\ status' = IF st \in RestStatuses THEN [status EXCEPT ![u] = st] ELSE status
  /\ lastReq' = [NoAnswer EXCEPT
                   !.op = "status", !.user = u,
                   !.status = IF st \in RestStatuses THEN "ok" ELSE "invalid",
                   !.content = st, !.online = (SessionsOf(live, u) # {}),
                   !.persisted = (st \in RestStatuses), !.alive = live]
  /\ UNCHANGED <<live, activeConnections, joined, lastStatus, lastEmit, roomVars,
                 msgVars, readVars, sends, sentLog, userVars, fileServer, editVars>>

NextSignal ==
  \/ \E s \in Sockets : ConnectEnded(s)
  \/ \E s \in Sockets, fail \in BOOLEAN : DisconnectEnded(s, fail)
  \/ \E s \in Sockets, st \in RestStatuses \cup {"asleep"} : StatusUpdateAnswered(s, st)
  \/ \E u \in DirectUsers, st \in RestStatuses \cup {"asleep"} : UpdateStatus(u, st)

\* connections, disconnections and status changes, each followed to its end
SpecSignal == Init /\ [][NextSignal]_vars

\* socket.on('typing:start') / socket.on('typing:stop'): socket.to(roomId).emit
Typing(s, rid, ev) ==
  LET d == findById(rooms, rid)
  IN  [NoAnswer EXCEPT
         !.op = ev, !.from = s, !.user = Owner(s), !.status = "ok",
         !.member = isMember(d, Owner(s)),
         !.others = InRoom(rid) \ {s},
         !.strangers = {x \in InRoom(rid) \ {s} : ~isMember(d, Owner(x))}]

\* socket.on('typing:start')
TypingStart(s, rid) ==
  /\ s \in live
  /\ lastReq' = Typing(s, rid, "typing:start")
  /\ UNCHANGED <<sockVars, roomVars, msgVars, readVars, sends, sentLog, userVars, fileServer, editVars>>

\* socket.on('typing:stop')
TypingStop(s, rid) ==
  /\ s \in live
  /\ lastReq' = Typing(s, rid, "typing:stop")
  /\ UNCHANGED <<sockVars, roomVars, msgVars, readVars, sends, sentLog, userVars, fileServer, editVars>>

NextTyping ==
  \/ \E s \in FanSockets : Connect(s)
  \/ \E s \in FanSockets : Disconnect(s)
  \/ \E s \in FanSockets : RoomCreate(s, MaxCap)
  \/ \E s \in FanSockets, rid \in RoomIds, t \in DirectUsers : RoomInvite(s, rid, t)
  \/ \E s \in FanSockets, rid \in RoomIds, t \in DirectUsers : RoomRemoveMember(s, rid, t)
  \/ \E s \in FanSockets, rid \in RoomIds : RoomJoin(s, rid)
  \/ \E s \in FanSockets, rid \in RoomIds : TypingStart(s, rid)
  \/ \E s \in FanSockets, rid \in RoomIds : TypingStop(s, rid)

\* typing signals among room subscriptions and membership changes
SpecTyping == Init /\ [][NextTyping]_vars

\* ---------------------------------------------------------- authentication
\* what a client sends as its credential: nothing, a string that is no JWT,
\* an access token past its expiry, a refresh token, or an access token in
\* date; id: the user in its payload; bearer: sent as 'Bearer <token>'
TokenKinds == {"none", "garbage", "expired", "refresh", "access"}

Tokens(ids) == [kind : TokenKinds, id : ids, bearer : BOOLEAN]

\* jwt.verify(token, secret, {issuer, audience: 'chat-app-users'}) returns
\* the payload; it throws for anything but an access token in date
verifyToken(tok) == tok.kind = "access"

\* null unless the header starts with 'Bearer '
extractTokenFromHeader(tok) ==
  IF tok.kind = "none" \/ ~tok.bearer THEN [tok EXCEPT !.kind = "none"]
  ELSE [tok EXCEPT !.bearer = FALSE]

Admit(u) == [ok |-> TRUE, user |-> u, why |-> "ok"]

Reject(why) == [ok |-> FALSE, user |-> NoUser, why |-> why]

\* the user lookup of socketAuth without its isActive test
socketAuthAnyUser(tok) ==
  IF tok.kind = "none" THEN Reject("token required")
  ELSE IF ~verifyToken([tok EXCEPT !.bearer = FALSE]) THEN Reject("invalid token")
  ELSE IF ~accounts[tok.id].exists THEN Reject("not found or inactive")
  ELSE Admit(tok.id)

\* io.use(socketAuth): the token of the handshake, 'Bearer ' stripped,
\* verifyToken, User.findById; next() or next(new Error(...))
socketAuth(tok) ==
  IF tok.kind = "none" THEN Reject("token required")
  ELSE IF ~verifyToken([tok EXCEPT !.bearer = FALSE]) THEN Reject("invalid token")
  ELSE IF ~accounts[tok.id].exists \/ ~accounts[tok.id].isActive
  THEN Reject("not found or inactive")
  ELSE Admit(tok.id)

\* router.use(authenticate): 401 or req.user and next()
authenticate(tok) ==
  LET token == extractTokenFromHeader(tok)
  IN  IF token.kind = "none" THEN Reject("token required")
      ELSE IF ~verifyToken(token) THEN Reject("invalid token")
      ELSE IF ~accounts[tok.id].exists \/ ~accounts[tok.id].isActive
      THEN Reject("not found or inactive")
      ELSE Admit(tok.id)

\* the credential names no user in the store that is active
BadToken(tok) ==
  \/ tok.kind # "access"
  \/ ~accounts[tok.id].exists
  \/ ~accounts[tok.id].isActive

\* a socket connects: socketAuth, then io.on('connection') when it calls next()
Handshake(s, tok) ==
  LET a == socketAuth(tok)
  IN  /\ s \notin live
      /\ IF a.ok
         THEN a.user = Owner(s) /\ Open(s)
         ELSE UNCHANGED <<sockVars, roomVars, msgVars, readVars, sends, sentLog, userVars, fileServer, editVars>>
      /\ lastReq' = [NoAnswer EXCEPT
                       !.op = "handshake", !.from = s, !.user = tok.id,
                       !.status = IF a.ok THEN "ok" ELSE "unauthorized",
                       !.content = tok.kind, !.bad = BadToken(tok),
                       !.changed = (live' # live \/ activeConnections' # activeConnections
                                    \/ status' # status),
                       !.alive = live']

\* DELETE /api/auth/account behind authenticate: comparePassword, then
\* isActive = false, status = 'offline', save()
DeleteAccount(tok, pwOk) ==
  LET a == authenticate(tok)
      done == a.ok /\ pwOk
  IN  /\ accounts' = IF done THEN [accounts EXCEPT ![a.user].isActive = FALSE]
                     ELSE accounts
      /\ status' = IF done THEN [status EXCEPT ![a.user] = "offline"] ELSE status
      /\ lastReq' = [NoAnswer EXCEPT
                       !.op = "deleteAccount", !.user = tok.id,
                       !.status = IF ~a.ok THEN "unauthorized"
                                  ELSE IF ~pwOk THEN "bad_request" ELSE "ok",
                       !.content = tok.kind, !.bad = BadToken(tok),
                       !.changed = (accounts' # accounts \/ status' # status),
                       !.alive = live]
      /\ UNCHANGED <<live, activeConnections, joined, lastStatus, lastEmit, roomVars,
                     msgVars, readVars, sends, sentLog, signups, fileServer, editVars>>

NextAuth ==
  \/ \E s \in Sockets, tok \in Tokens({"a", "b", "e"}) : Handshake(s, tok)
  \/ \E s \in Sockets : Disconnect(s)
  \/ \E s \in Sockets, st \in {"away", "offline"} : StatusUpdateAnswered(s, st)
  \/ \E tok \in Tokens({"a", "b", "e"}), pwOk \in BOOLEAN : DeleteAccount(tok, pwOk)

\* handshakes and requests with every kind of credential
SpecAuth == Init /\ [][NextAuth]_vars

\* ------------------------------------------------- register and profile
\* "x!" stands for the usernames registerValidation refuses
Names == {"a", "d", "x!"}
Emails == {"a@x", "d@x", "D@x"}

\* body('username').isLength({min: 3, max: 30}).matches(/^[a-zA-Z0-9_]+$/)
ValidName(n) == n # "x!"

\* body('email').normalizeEmail(), and lowercase: true of the schema
normalizeEmail(e) == IF e = "D@x" THEN "d@x" ELSE e

\* User.findOne({$or: [{email}, {username}]})
FindUser(name, email) ==
  {id \in AccountIds : accounts[id].exists
                        /\ (accounts[id].email = email \/ accounts[id].username = name)}

\* User.findOne({username, _id: {$ne: user._id}})
FindOther(name, u) ==
  {id \in AccountIds \ {u} : accounts[id].exists /\ accounts[id].username = name}

\* unique: true on username and on email: the write of document id is
\* refused (E11000) when another document holds the value
DuplicateKey(id, name, email) ==
  \E j \in AccountIds \ {id} :
     accounts[j].exists /\ (accounts[j].username = name \/ accounts[j].email = email)

FreeSignups == {k \in Slots : signups[k].op = "none"}

FreeIds ==
  {id \in NewIds : ~accounts[id].exists /\ \A k \in Slots : signups[k].id # id}

\* the 400 or 409 of a request that ends before its save()
SignupRefused(op, u, why, clash) ==
  /\ lastReq' = [NoAnswer EXCEPT !.op = op, !.user = u, !.status = why, !.clash = clash]
  /\ UNCHANGED <<sockVars, roomVars, msgVars, readVars, sends, sentLog, userVars, fileServer, editVars>>

\* save() of the request is awaited
SignupPending(op, id, name, email) ==
  /\ FreeSignups # {}
  /\ LET k == CHOOSE x \in FreeSignups : \A y \in FreeSignups : x <= y
     IN  signups' = [signups EXCEPT ![k] = [op |-> op, id |-> id, username |-> name,
                                            email |-> email]]
  /\ UNCHANGED <<sockVars, roomVars, msgVars, readVars, sendVars, accounts, fileServer, editVars>>

\* POST /api/auth/register as far as user.save()
RegisterStart(name, email) ==
  LET em == normalizeEmail(email)
  IN  IF ~ValidName(name) THEN SignupRefused("register", NoUser, "invalid", FALSE)
      ELSE IF FindUser(name, em) # {}
      THEN SignupRefused("register", NoUser, "conflict", TRUE)
      ELSE \E id \in FreeIds : SignupPending("register", id, name, em)

\* PUT /api/auth/profile as far as user.save()
UpdateProfileStart(u, name) ==
  /\ accounts[u].exists /\ accounts[u].isActive
  /\ \A k \in Slots : signups[k].id # u
  /\ IF ~ValidName(name) THEN SignupRefused("profile", u, "invalid", FALSE)
     ELSE IF name # accounts[u].username /\ FindOther(name, u) # {}
     THEN SignupRefused("profile", u, "conflict", TRUE)
     ELSE SignupPending("profile", u, name, accounts[u].email)

\* user.save() settles: the document is written, or the unique index refuses
\* it and the catch block answers 500; register then sets the status online
SignupDone(k) ==
  LET g == signups[k]
      dup == DuplicateKey(g.id, g.username, g.email)
  IN  /\ g.op # "none"
      /\ signups' = [signups EXCEPT ![k] = IdleSignup]
      /\ accounts' = IF dup THEN accounts
                     ELSE [accounts EXCEPT ![g.id] =
                             IF g.op = "register" THEN NewUser(g.username, g.email)
                             ELSE [@ EXCEPT !.username = g.username]]
      /\ status' = IF ~dup /\ g.op = "register"
                   THEN [status EXCEPT ![g.id] = "online"] ELSE status
      /\ lastReq' = [NoAnswer EXCEPT
                       !.op = g.op, !.user = g.id,
                       !.status = IF dup THEN "error" ELSE "ok",
                       !.clash = \E j \in AccountIds \ {g.id} :
                                   /\ accounts[j].exists
                                   /\ \/ accounts[j].username = g.username
                                      \/ accounts[j].email = g.email,
                       !.changed = (accounts' # accounts)]
      /\ UNCHANGED <<live, activeConnections, joined, lastStatus, lastEmit, roomVars,
                     msgVars, readVars, sends, sentLog, fileServer, editVars>>

NextUsers ==
  \/ \E name \in Names, email \in Emails : RegisterStart(name, email)
  \/ \E u \in DirectUsers, name \in Names : UpdateProfileStart(u, name)
  \/ \E k \in Slots : SignupDone(k)

\* registrations and profile updates, their lookups and saves interleaved
SpecUsers == Init /\ [][NextUsers]_vars

\* ------------------------------------------------------ interleaved edits
EditTexts == {"y", "z"}

\* message:edit as far as the save() of editContent: the checks of the
\* handler on the message it read; editContent pushes the content it read to
\* editHistory and sets the new content on the handler's copy
MessageEditStart(s, id, content) ==
  LET m == findMessage(id)
  IN  /\ s \in live
      /\ Len(edits) + Len(m.editHistory) < MaxRaceEdits
      /\ edits' = IF messageEdit(m, Owner(s), content).status = "ok"
                  THEN Append(edits, [id |-> id, was |-> m.content, content |-> content])
                  ELSE edits
      /\ UNCHANGED <<sockVars, roomVars, msgVars, readVars, sendVars, userVars,
                     fileServer, edited>>

\* save() of an edit: $push of the editHistory entry, $set of content; the
\* push is applied to the stored array whatever other saves did to it
EditDone(k) ==
  /\ k \in DOMAIN edits
  /\ LET e == edits[k]
     IN  /\ msgs' = [msgs EXCEPT ![e.id].editHistory = Append(@, e.was),
                                 ![e.id].content = e.content]
         /\ edited' = [edited EXCEPT ![e.id] = Append(@, e.content)]
  /\ edits' = SubSeq(edits, 1, k - 1) \o SubSeq(edits, k + 1, Len(edits))
  /\ UNCHANGED <<sockVars, roomVars, now, lastMsg, reacts, conc, reads, readVars,
                 sendVars, userVars, fileServer>>

NextEdit ==
  \/ \E s \in FanSockets : Connect(s)
  \/ \E s \in FanSockets : RoomCreate(s, MaxCap)
  \/ \E s \in FanSockets, rid \in RoomIds, t \in DirectUsers : RoomInvite(s, rid, t)
  \/ \E s \in FanSockets, rid \in RoomIds : MessageSend(s, rid, "x")
  \/ \E s \in FanSockets, id \in MsgIds, c \in EditTexts : MessageEditStart(s, id, c)
  \/ \E k \in 1..MaxRaceEdits : EditDone(k)

\* edits of a message, their reads and saves interleaved
SpecEdit == Init /\ [][NextEdit]_vars

\* ------------------------------------------------- the file-backed server
\* MaxHistory stands for the 1000 messages the handler keeps. Messages are
\* numbered in the order their handlers started
\* messages.splice(0, messages.length - 1000) when there are more than 1000
KeepLast(list) ==
  IF Len(list) > MaxHistory
  THEN SubSeq(list, Len(list) - MaxHistory + 1, Len(list))
  ELSE list

\* the variables of the main server
chatVars == <<sockVars, roomVars, msgVars, readVars, sendVars, userVars, editVars>>

\* socket.on('join'): connectedUsers.set(socket.id, ...)
FileJoin(s) ==
  /\ s \notin fileServer.connected
  /\ fileServer' = [fileServer EXCEPT !.connected = @ \cup {s}]
  /\ UNCHANGED chatVars

\* socket.on('send_message') as far as await readJsonFile; a socket that did
\* not join is answered 'User not found'
SendMessage(s) ==
  /\ fileServer.made < MaxFileSends
  /\ fileServer' =
       IF s \notin fileServer.connected THEN fileServer
       ELSE [fileServer EXCEPT
               !.made = @ + 1,
               !.pending = Append(@, [n |-> fileServer.made + 1, pc |-> "read",
                                      messages |-> <<>>])]
  /\ UNCHANGED chatVars

\* readJsonFile resolves: messages.push(message), the splice, and
\* writeJsonFile is awaited
FileRead(k) ==
  /\ k \in DOMAIN fileServer.pending /\ fileServer.pending[k].pc = "read"
  /\ fileServer' =
       [fileServer EXCEPT
          !.pending[k].pc = "write",
          !.pending[k].messages =
             KeepLast(Append(fileServer.file, fileServer.pending[k].n))]
  /\ UNCHANGED chatVars

\* writeJsonFile resolves: the file holds the handler's list, and new_message
\* is emitted to the room
FileWritten(k) ==
  /\ k \in DOMAIN fileServer.pending /\ fileServer.pending[k].pc = "write"
  /\ fileServer' =
       [fileServer EXCEPT
          !.file = fileServer.pending[k].messages,
          !.aired = Append(@, fileServer.pending[k].n),
          !.pending = SubSeq(@, 1, k - 1) \o SubSeq(@, k + 1, Len(@))]
  /\ UNCHANGED chatVars

NextFile ==
  \/ \E s \in Sockets : FileJoin(s)
  \/ \E s \in Sockets : SendMessage(s)
  \/ \E k \in 1..MaxFileSends : FileRead(k)
  \/ \E k \in 1..MaxFileSends : FileWritten(k)

\* send_message handlers of the file-backed server, their awaits interleaved
SpecFile == Init /\ [][NextFile]_vars

\* ------------------------------------------------------ deactivated rooms
NextGone ==
  \/ \E s \in FanSockets : Connect(s)
  \/ \E s \in FanSockets : RoomCreate(s, MaxCap)
  \/ \E s \in FanSockets, rid \in RoomIds, t \in DirectUsers : RoomInvite(s, rid, t)
  \/ \E s \in FanSockets, rid \in RoomIds : RoomJoin(s, rid)
  \/ \E u \in DirectUsers, rid \in RoomIds : DeleteRoom(u, rid)
  \/ \E s \in FanSockets, rid \in RoomIds, c \in {" ", "x"} :
       MessageSendAnswered(s, rid, c, "none")

\* rooms deleted by their creator and the sends that follow
SpecGone == Init /\ [][NextGone]_vars

\* ---------------------------------------------------- claims on the rooms
\* C5: in every reachable state every room has at most settings.maxMembers
\* members
MembersWithinMax ==
  \A j \in DOMAIN rooms : Len(rooms[j].members) <= rooms[j].maxMembers

\* C6: at most one direct room holds a given pair, and every answer to a
\* direct-room request for a pair carries the id of a direct room of the
\* store made for that pair (so all answers for the pair carry the same id)
DirectIdempotent ==
  /\ \A u, t \in Users :
       u # t => Cardinality({j \in DOMAIN rooms :
                               /\ rooms[j].type = "direct"
                               /\ {u, t} \subseteq MemberUsers(rooms[j])}) <= 1
  /\ directResp.pair # {} =>
       /\ directResp.room \in DOMAIN rooms
       /\ rooms[directResp.room].type = "direct"
       /\ rooms[directResp.room].creator \in directResp.pair

\* C7: in every reachable state every direct room has exactly two members
DirectHasTwoMembers ==
  \A j \in DOMAIN rooms : rooms[j].type = "direct" => Len(rooms[j].members) = 2

\* C8: in every reachable state the creator of every room is in its member
\* list, with role admin
CreatorIsAdmin ==
  \A j \in DOMAIN rooms :
    \E i \in DOMAIN rooms[j].members :
      /\ rooms[j].members[i].user = rooms[j].creator
      /\ rooms[j].members[i].role = "admin"

\* C8 witness: a room in which another member was made admin (so may remove
\* and demote), while a removal read from an older version is still pending
CreatorKeptUnderRace ==
  \E j \in DOMAIN rooms :
    /\ \E i \in DOMAIN rooms[j].members :
         /\ rooms[j].members[i].user # rooms[j].creator
         /\ rooms[j].members[i].role = "admin"
    /\ \E k \in Slots :
         /\ reqs[k].delta.kind = "setMembers"
         /\ reqs[k].delta.rid = j
         /\ reqs[k].outdated

\* C9: in every reachable state no user appears twice in a room's member list
NoDuplicateMembers ==
  \A j \in DOMAIN rooms :
    \A i1, i2 \in DOMAIN rooms[j].members :
      rooms[j].members[i1].user = rooms[j].members[i2].user => i1 = i2

\* ------------------------------------------------- claims on the registry
\* C3: in every reachable state isUserOnline(u) is true exactly when u has a
\* connection that connected and has not disconnected
OnlineIffConnected ==
  \A u \in Users : isUserOnline(u) <=> SessionsOf(live, u) # {}

\* C4: user:status offline is emitted, and offline persisted, only when the
\* user has no live session left
OfflineOnlyAfterLastSession ==
  /\ lastStatus.status = "offline" => lastStatus.sessions = {}
  /\ \A u \in Users : status[u] = "offline" => SessionsOf(live, u) = {}

EveryMemberSessionReceives ==
  lastEmit.room # NoRoom =>
    \A x \in lastEmit.live : Owner(x) \in lastEmit.members => x \in lastEmit.to

\* ------------------------------------------------- claims on the messages
\* C10: an edit, react or unreact request on a soft-deleted message is
\* refused and leaves the message as it was
DeletedIsImmutable ==
  (lastMsg.op \in {"edit", "react", "unreact"} /\ lastMsg.deleted) =>
    (lastMsg.status # "ok" /\ ~lastMsg.changed)

OnlySenderEdits ==
  (lastMsg.op = "edit" /\ ~lastMsg.own) =>
    (lastMsg.status # "ok" /\ ~lastMsg.changed)

\* C13 witness: the room's creator, an admin, asked to edit the message of
\* another member in time, and was refused
AdminEditRefused ==
  /\ lastMsg.op = "edit" /\ lastMsg.valid /\ ~lastMsg.own /\ lastMsg.admin
  /\ ~lastMsg.old /\ ~lastMsg.deleted
  /\ lastMsg.status = "not_sender"

\* C14: a delete succeeds only for the sender, a member with the admin role
\* or the room's creator; for anyone else it is refused, changes nothing and
\* emits nothing
DeleteNeedsSenderOrAdmin ==
  (lastMsg.op = "delete" /\ ~lastMsg.own /\ ~lastMsg.admin) =>
    (lastMsg.status # "ok" /\ ~lastMsg.changed /\ ~lastMsg.emitted)

\* C14 witness: a member without the admin role asked to delete the message
\* of another and was refused
MemberDeleteRefused ==
  /\ lastMsg.op = "delete" /\ lastMsg.member /\ ~lastMsg.own /\ ~lastMsg.admin
  /\ ~lastMsg.deleted
  /\ lastMsg.status = "forbidden"

\* C15: for a member of the room and a message that is not deleted, a
\* second react with the same emoji leaves the emoji's users as the first
\* react left them, the member being there once
ReactTwiceSame ==
  \A id \in DOMAIN msgs, u \in Users, e \in Emojis, k1, k2 \in BOOLEAN :
    (~msgs[id].isDeleted /\ isMember(findById(rooms, msgs[id].room), u)) =>
      LET m1 == addReaction(msgs[id], e, u, k1)
          m2 == addReaction(m1, e, u, k2)
          i == FindReaction(m1.reactions, e)
      IN  /\ m2.reactions = m1.reactions
          /\ Cardinality({j \in DOMAIN m1.reactions[i].users :
                            m1.reactions[i].users[j] = u}) = 1

\* C16: for a member not among the emoji's users, react followed by unreact
\* gives back the reaction list as it was before the react
ReactUnreactRestores ==
  \A id \in DOMAIN msgs, u \in Users, e \in Emojis, kept \in BOOLEAN :
    LET m == msgs[id]
        i == FindReaction(m.reactions, e)
    IN  (/\ ~m.isDeleted
         /\ isMember(findById(rooms, m.room), u)
         /\ (i # 0 => ~Includes(m.reactions[i].users, u))) =>
          removeReaction(addReaction(m, e, u, kept), e, u).reactions = m.reactions

\* C17: a react asked by a user who is not a member of the message's room is
\* refused, changes nothing and emits nothing
NonMemberReactRefused ==
  (lastMsg.op = "react" /\ ~lastMsg.member) =>
    (lastMsg.status # "ok" /\ ~lastMsg.changed /\ ~lastMsg.emitted)

\* C17 witness: a user outside the room asked to react to a message of it
\* that is not deleted, and was refused as not allowed
OutsiderReactRefused ==
  /\ lastMsg.op = "react" /\ ~lastMsg.member /\ ~lastMsg.deleted
  /\ lastMsg.status = "forbidden"
  /\ msgs # <<>>

\* C18: when a member reacts with an emoji the message (not deleted) has no
\* entry for, the entry stored is that member alone, with count 1, and the
\* payload emitted is the reaction list stored
FirstReactStoresReactor ==
  /\ \A id \in DOMAIN msgs, u \in Users, e \in Emojis, kept \in BOOLEAN :
       LET m == msgs[id]
           m1 == addReaction(m, e, u, kept)
           i == FindReaction(m1.reactions, e)
       IN  (/\ ~m.isDeleted
            /\ isMember(findById(rooms, m.room), u)
            /\ FindReaction(m.reactions, e) = 0) =>
             (m1.reactions[i].users = <<u>> /\ Count(m1.reactions[i]) = 1)
  /\ (lastMsg.op = "react" /\ lastMsg.emitted) =>
       \E id \in DOMAIN msgs : msgs[id].reactions = lastMsg.payload

\* C19: when react requests of different members on the same message were
\* pending together and all of them have completed, the message's reactions
\* hold every one of these members under the emoji of the request
BothReactionsStored ==
  (\A u \in Users : reacts[u].kind = "none") =>
    \A t \in conc :
      \E i \in DOMAIN findMessage(t[2]).reactions :
        /\ findMessage(t[2]).reactions[i].emoji = t[3]
        /\ Includes(findMessage(t[2]).reactions[i].users, t[1])

\* C20: for every room and member the stored lastReadAt is at least every
\* instant that was stored for them before: the watermark never decreases
WatermarkNeverDecreases ==
  \A rid \in RoomIds, u \in Users : lastReadAt[rid][u] >= highRead[rid][u]

\* C21: a member who has marked the room as read at an instant later than
\* the creation of every message of the others in the room is answered an
\* unread count of 0
UnreadZeroAfterRead ==
  \A rid \in DOMAIN rooms, u \in Users :
    (/\ isMember(rooms[rid], u)
     /\ \A id \in DOMAIN msgs :
          (msgs[id].room = rid /\ msgs[id].sender # u) =>
            msgs[id].createdAt < highRead[rid][u])
    => getUnreadCount(rid, u).unreadCount = 0

\* C22: a message:send whose content is empty, only whitespace or longer than
\* 2000 characters is answered with an error to its sender before the store is
\* read: no message is created, the room is unchanged, nothing is fanned out
InvalidSendRefused ==
  (/\ lastReq.op = "send"
   /\ \/ Length(Trim(lastReq.content)) = 0
      \/ Length(lastReq.content) > MaxContent)
  => /\ lastReq.status = "invalid"
     /\ lastReq.errorTo = {lastReq.from}
     /\ ~lastReq.read /\ ~lastReq.persisted /\ ~lastReq.changed
     /\ lastReq.others = {}

\* a message:send with a text of 2001 characters was refused after the room
\* had received a message
LongSendRefused ==
  /\ lastReq.op = "send" /\ lastReq.content = LongText /\ lastReq.status = "invalid"
  /\ msgs # <<>>

\* C23: a message:send answered with an error after a store call rejected
\* has persisted no message and has left the room unchanged
FailedSendPersistsNothing ==
  (lastReq.op = "send" /\ lastReq.status = "error")
  => (~lastReq.persisted /\ ~lastReq.changed)

\* C24: when a socket request is refused, the error event goes to the
\* connection that made the request and to no other, and no event of the
\* request reaches another connection
RefusalOnlyToRequester ==
  (lastReq.op # "none" /\ lastReq.status # "ok")
  => (lastReq.errorTo = {lastReq.from} /\ lastReq.others = {})

\* a message:send was answered with an error after its message was saved,
\* while another connection was subscribed to a room
SendFailedBesideOthers ==
  /\ lastReq.op = "send" /\ lastReq.status = "error" /\ lastReq.persisted
  /\ \E x \in live, rid \in RoomIds : x # lastReq.from /\ <<x, rid>> \in joined

\* C25: of two message:send events of one connection for one room, the one
\* that arrived first has its message:new emitted first and its message
\* created no later
SendsKeepArrivalOrder ==
  \A i, j \in DOMAIN sentLog :
    (/\ sentLog[i].s = sentLog[j].s /\ sentLog[i].rid = sentLog[j].rid
     /\ sentLog[i].n < sentLog[j].n)
    => (i < j /\ sentLog[i].at <= sentLog[j].at)

\* C30: a user adds themself to a room (joinRoom answered with success) only
\* when the room is of type public
SelfJoinOnlyPublic ==
  (lastResp.op = "joinRoom" /\ lastResp.status = "ok")
  => findById(rooms, lastResp.room).type = "public"

\* C26: when the disconnect handler of a connection has ended, the session is
\* out of the registry, the status offline is persisted and user:status
\* offline has been broadcast
DisconnectCompletes ==
  lastReq.op = "disconnect"
  => (lastReq.unregistered /\ lastReq.persisted /\ lastReq.broadcast)

\* C27: a status change is accepted only when the status asked for is online,
\* away or busy and the user has a live session
StatusNeedsLiveSession ==
  (lastReq.op = "status" /\ lastReq.status = "ok")
  => (lastReq.content \in Statuses /\ lastReq.online)

\* C28: every accepted presence transition is broadcast as user:status to the
\* live connections (other than the one it comes from)
TransitionsBroadcast ==
  (lastReq.op \in {"connect", "status", "disconnect"} /\ lastReq.status = "ok")
  => (lastReq.broadcast /\ (lastReq.alive \ {lastReq.from}) \subseteq lastReq.to)

\* C29: a typing signal reaches other connections only when its sender is a
\* member of the room, then only sessions of members, and never its sender
TypingOnlyAmongMembers ==
  lastReq.op \in {"typing:start", "typing:stop"}
  => /\ lastReq.from \notin lastReq.others
     /\ lastReq.strangers = {}
     /\ lastReq.others # {} => lastReq.member

\* C31: a message:send to a room that was deactivated is refused as not
\* found: no message is persisted and no event reaches another connection
DeactivatedRoomRefuses ==
  (lastReq.op = "send" /\ lastReq.gone)
  => (lastReq.status = "not_found" /\ ~lastReq.persisted /\ lastReq.others = {})

\* C32: a handshake or a REST request whose token is missing, malformed,
\* expired, or of a missing or inactive user is rejected: nothing is changed
\* and the socket is not among the live connections
BadTokenRejected ==
  (lastReq.op \in {"handshake", "deleteAccount"} /\ lastReq.bad)
  => (/\ lastReq.status = "unauthorized"
      /\ ~lastReq.changed
      /\ lastReq.from \notin lastReq.alive)

\* an access token in date of a user who deleted the account was refused
InactiveUserRefused ==
  /\ lastReq.op = "handshake" /\ lastReq.content = "access"
  /\ accounts[lastReq.user].exists /\ ~accounts[lastReq.user].isActive
  /\ lastReq.status = "unauthorized"

\* C33: no two users share a username or an email, and a register or
\* profile request that meets another user with its username or email is
\* refused with a conflict error and changes no user
UsersUniqueOrConflict ==
  /\ \A i, j \in AccountIds :
       (i # j /\ accounts[i].exists /\ accounts[j].exists)
       => (accounts[i].username # accounts[j].username
           /\ accounts[i].email # accounts[j].email)
  /\ (lastReq.op \in {"register", "profile"} /\ lastReq.clash)
     => (lastReq.status = "conflict" /\ ~lastReq.changed)

\* C34: a react request emits a reaction event to the room only when it
\* changed the reactions of the message
ReactEmitsOnlyOnChange ==
  (lastMsg.op = "react" /\ lastMsg.emitted) => lastMsg.changed

\* C35: the stored history holds at most MaxHistory messages, and every
\* message emitted as new_message is in it until MaxHistory newer ones were
\* emitted
HistoryKeepsNewest ==
  /\ Len(fileServer.file) <= MaxHistory
  /\ \A i \in DOMAIN fileServer.aired :
       Len(fileServer.aired) - i < MaxHistory
       => \E j \in DOMAIN fileServer.file : fileServer.file[j] = fileServer.aired[i]

DeletedIsTerminal ==
  [][\A id \in DOMAIN msgs :
       msgs[id].isDeleted
       => /\ msgs'[id].isDeleted
          /\ msgs'[id].deletedBy = msgs[id].deletedBy
          /\ msgs'[id].deletedAt = msgs[id].deletedAt]_vars

\* C38: every reaction entry stored on a message has at least one user, no
\* user twice, and a count equal to the number of its users
ReactionEntriesSound ==
  \A id \in DOMAIN msgs :
    \A i \in DOMAIN msgs[id].reactions :
      LET r == msgs[id].reactions[i]
      IN  /\ r.users # <<>>
          /\ \A j, k \in DOMAIN r.users : r.users[j] = r.users[k] => j = k
          /\ Count(r) = Cardinality({r.users[j] : j \in DOMAIN r.users})

\* C39: when no send is in flight, the lastMessage of a room is a message of
\* the room that no other message of the room was created after
LastMessageIsLatest ==
  sends = <<>> =>
    \A rid \in DOMAIN rooms :
      (\E id \in DOMAIN msgs : msgs[id].room = rid)
      => /\ rooms[rid].lastMessage \in DOMAIN msgs
         /\ msgs[rooms[rid].lastMessage].room = rid
         /\ \A id \in DOMAIN msgs :
              msgs[id].room = rid
              => msgs[id].createdAt <= msgs[rooms[rid].lastMessage].createdAt

\* two handlers agree on a request: both accept it or both refuse it, and
\* they save the same document
SameOutcome(x, y) ==
  /\ (x.status = "ok") = (y.status = "ok")
  /\ x.doc = y.doc

\* C40: for every stored message and every user, the socket handlers
\* message:edit, message:delete, message:react and message:unreact accept a
\* request exactly when the REST endpoints accept it, and save the same message
SocketMatchesRest ==
  \A id \in DOMAIN msgs, u \in Users :
    LET m == msgs[id]
    IN  /\ \A c \in EditTexts \cup {""} :
             SameOutcome(messageEdit(m, u, c), updateMessage(m, u, c))
        /\ SameOutcome(messageDelete(m, u), deleteMessage(m, u))
        /\ \A e \in Emojis, kept \in BOOLEAN :
             SameOutcome(messageReact(m, u, e, kept), addReactionRest(m, u, e, kept))
        /\ \A e \in Emojis :
             SameOutcome(messageUnreact(m, u, e), removeReactionRest(m, u, e))

====
